---- MODULE Spec2Model ----
(***************************************************************************)
(* A model of the quicly connection engine (lib/quicly.c, quicly.h).       *)
(*                                                                         *)
(* One connection is modelled, and in the echo specification a second one  *)
(* at the other end of a network.  The fields of the connection are the    *)
(* record conn, its stream map is the function streams (stream id ->       *)
(* stream record).  Every                                                  *)
(* library entry point (quicly_send, quicly_receive, quicly_open_stream,   *)
(* quicly_close_stream, the send-buffer write and shutdown the host calls  *)
(* on a stream) is one action that models the whole call.  Range sets are  *)
(* kept as the sets of integers they cover.  The send buffer, receive      *)
(* buffer, range set, max-sender, ack book and frame codec are not part of *)
(* lib/quicly.c; they are modelled from their description and from the way *)
(* quicly.c uses them.  TLS (picotls) is an external collaborator: each    *)
(* handshake step is a nondeterministic outcome.                           *)
(***************************************************************************)
EXTENDS Integers, Sequences, FiniteSets, TLC

VARIABLES
    conn,       \* struct st_quicly_conn_t (super, ingress, egress), with ctx
    streams,    \* conn->streams: stream id -> quicly_stream_t
    now,        \* the value ctx->now() returns
    last,       \* what the last library call did: its name, return value,
                \* output packets and the callbacks it invoked
    remote,     \* the connection at the other end, when it is modelled:
                \* [c, st], the fields and the stream map of the server
    wire,       \* the packets in flight between the two connections
    app         \* what the two hosts have written and been delivered

vars == <<conn, streams, now, last, remote, wire, app>>

(***************************************************************************)
(* Bounds of the model.                                                    *)
(***************************************************************************)
MaxLen == 2          \* bytes the host writes on one stream
MaxTime == 2         \* the clock runs from 0 to MaxTime
MaxPn == 4           \* egress packet numbers used before send is disabled
MaxStreams == 1      \* non-zero streams the host opens in the stream specification
IdBits == 3          \* width of a stream id in the id specification
MaxDrops == 1        \* packets the network drops in the echo specification

(***************************************************************************)
(* Program constants.                                                      *)
(***************************************************************************)
UINT64_MAX == 1073741823    \* stands for 2^64-1: above every offset used
QUICLY_STATE_BEFORE_SH == 0
QUICLY_STATE_BEFORE_SF == 1
QUICLY_STATE_1RTT_ENCRYPTED == 2
QUICLY_PACKET_TYPE_CLIENT_INITIAL == 2
QUICLY_PACKET_TYPE_SERVER_CLEARTEXT == 4
QUICLY_PACKET_TYPE_CLIENT_CLEARTEXT == 5
QUICLY_PACKET_TYPE_0RTT_PROTECTED == 6
QUICLY_PACKET_TYPE_1RTT_KEY_PHASE_0 == 7
QUICLY_PACKET_TYPE_1RTT_KEY_PHASE_1 == 8
LONG_HEADER_SIZE == 17      \* emit_long_header: 1 + 8 + 4 + 4
FNV1A_TAG_SIZE == 8
CLIENT_INITIAL_MAX_SIZE == 1272
MAXSENDER_MIN_DELTA == 512
AEAD_TAG_SIZE == 16
QUICLY_STOP_SENDING_FRAME_SIZE == 9
QUICLY_RST_FRAME_SIZE == 17
QUICLY_MAX_DATA_FRAME_SIZE == 9
QUICLY_MAX_STREAM_DATA_FRAME_SIZE == 13
QUICLY_ERROR_TBD == 99      \* error codes: any non-zero value
QUICLY_ERROR_PACKET_IGNORED == 98
QUICLY_ERROR_INVALID_PACKET_HEADER == 97
QUICLY_ERROR_INVALID_FRAME_DATA == 96
QUICLY_ERROR_DECRYPTION_FAILURE == 95
QUICLY_ERROR_HANDSHAKE_TOO_LARGE == 94
QUICLY_ERROR_TOO_MANY_OPEN_STREAMS == 93
QUICLY_ERROR_FIN_CLOSED == 92
PTLS_ERROR_IN_PROGRESS == 91
PTLS_ALERT_HANDSHAKE_FAILURE == 90
PTLS_ERROR_NO_MEMORY == 88
APP_ERROR == 89             \* a non-zero value returned by a host callback

Min(S) == CHOOSE x \in S : \A y \in S : x <= y
Max(S) == CHOOSE x \in S : (x + 1) \notin S /\ \A y \in S : y <= x
MinOf(a, b) == IF a <= b THEN a ELSE b

(***************************************************************************)
(* Range sets (quicly_ranges_t), kept as the set of the integers covered.  *)
(***************************************************************************)
\* the start of every maximal interval of S
RangeStarts(S) == {x \in S : (x - 1) \notin S}
\* the end (exclusive) of the interval of S that starts at a; hi is any
\* upper bound of S
RangeEnd(S, a, hi) == Min({y \in a..(hi + 1) : y \notin S})
\* ranges[num_ranges - 1].end of a set that starts as the empty range [0,0)
LastEnd(S) == IF S = {} THEN 0 ELSE Max(S) + 1
\* ranges[0].end of a set whose first range starts at 0
FirstEnd(S) == IF 0 \notin S THEN 0 ELSE RangeEnd(S, 0, LastEnd(S))
Interval(a, b) == a..(b - 1)

(***************************************************************************)
(* Send buffer (quicly_sendbuf_t).                                         *)
(***************************************************************************)
quicly_sendbuf_init ==
    [len |-> 0, eos |-> UINT64_MAX, pending |-> {}, acked |-> {}]

quicly_sendbuf_write(buf, n) ==
    [buf EXCEPT !.len = @ + n, !.pending = @ \cup Interval(buf.len, buf.len + n)]

\* the EOS takes one virtual byte of offset, which is pending until sent
quicly_sendbuf_shutdown(buf) ==
    [buf EXCEPT !.eos = buf.len, !.pending = @ \cup {buf.len}]

quicly_sendbuf_acked(buf, start, end) ==
    [buf EXCEPT !.acked = @ \cup Interval(start, end)]

quicly_sendbuf_lost(buf, start, end) ==
    [buf EXCEPT !.pending = @ \cup Interval(start, end)]

quicly_sendbuf_transfer_complete(buf) ==
    /\ buf.eos # UINT64_MAX
    /\ \A x \in 0..buf.eos : x \in buf.acked

(***************************************************************************)
(* Receive buffer (quicly_recvbuf_t).                                      *)
(***************************************************************************)
quicly_recvbuf_init ==
    [received |-> {}, data_off |-> 0, eos |-> UINT64_MAX]

\* bytes held by the buffer: everything received that is not consumed
recvbuf_data_len(buf) == LastEnd(buf.received) - buf.data_off
\* quicly_recvbuf_get(buf).len: the contiguous prefix not yet consumed
recvbuf_get_len(buf) == FirstEnd(buf.received) - buf.data_off

quicly_recvbuf_shift(buf, n) == [buf EXCEPT !.data_off = @ + n]

\* returns <<ret, buf>>
quicly_recvbuf_mark_eos(buf, eos_at) ==
    IF buf.eos # UINT64_MAX
    THEN <<IF buf.eos = eos_at THEN 0 ELSE QUICLY_ERROR_TBD, buf>>
    ELSE IF eos_at < LastEnd(buf.received)
         THEN <<QUICLY_ERROR_TBD, buf>>
         ELSE <<0, [buf EXCEPT !.eos = eos_at]>>

\* returns <<ret, buf>>
quicly_recvbuf_write(buf, off, len) ==
    IF len > 0 /\ off + len > buf.eos
    THEN <<QUICLY_ERROR_TBD, buf>>
    ELSE <<0, [buf EXCEPT !.received = @ \cup Interval(off, off + len)]>>

quicly_recvbuf_transfer_complete(buf) ==
    buf.eos # UINT64_MAX /\ FirstEnd(buf.received) = buf.eos

(***************************************************************************)
(* MaxSender (quicly_maxsender_t).                                         *)
(***************************************************************************)
quicly_maxsender_init(initial_value) ==
    [max_inflight |-> initial_value, max_acked |-> initial_value]

quicly_maxsender_should_update(ms, consumed, window, min_delta) ==
    consumed + window - ms.max_inflight >= min_delta

quicly_maxsender_record(ms, new_value) ==
    [ms EXCEPT !.max_inflight = IF new_value > @ THEN new_value ELSE @]

quicly_maxsender_acked(ms, value) ==
    [ms EXCEPT !.max_acked = IF value > @ THEN value ELSE @]

quicly_maxsender_lost(ms, value) ==
    [ms EXCEPT !.max_inflight = ms.max_acked]

(***************************************************************************)
(* Streams and the stream map.  A call in progress is the record m:        *)
(*   c, st   the connection and its stream map                             *)
(*   s       struct st_quicly_send_context_t                               *)
(*   ret     the value the running function has returned (0: go on)        *)
(*   abort   the assertion that failed, or the fault that ended the        *)
(*           process ("none" while the call is running normally)           *)
(*   upd     the stream ids on_update was invoked for, in order            *)
(*   destroyed  the streams destroy_stream has freed, as they were then    *)
(*   tls_calls  the number of ptls_handshake calls made                    *)
(*   tls_ok  whether a ptls_handshake call has returned 0                  *)
(*   opened  the stream ids on_stream_open was invoked for, in order       *)
(*   cb      what the host callbacks do in this call                       *)
(***************************************************************************)
IdMod == 2 ^ IdBits
U32(x) == x % IdMod     \* uint32_t arithmetic on stream ids and counters

quicly_is_client(c) == c.host_next_stream_id % 2 # 0

open_stream(c, stream_id) ==
    [stream_id |-> stream_id,
     sendbuf |-> quicly_sendbuf_init,
     recvbuf |-> quicly_recvbuf_init,
     max_stream_data |-> c.peer_tp.initial_max_stream_data,
     max_sent |-> 0,
     stop_sending |-> [sender_state |-> "none", reason |-> 0],
     rst |-> [sender_state |-> "none", reason |-> 0],
     max_stream_data_sender |->
         quicly_maxsender_init(c.ctx.initial_max_stream_data),
     window |-> c.ctx.initial_max_stream_data,
     rst_reason |-> QUICLY_ERROR_FIN_CLOSED,
     close_called |-> FALSE]

\* kh_put followed by kh_val(...) = stream: an existing key is overwritten
PutStream(st, stream) == (stream.stream_id :> stream) @@ st

DropStream(st, id) == [x \in (DOMAIN st) \ {id} |-> st[x]]

HasStream(m, id) == id \in DOMAIN m.st

destroy_stream(m, id) ==
    LET c == m.c
        isc == IF quicly_is_client(c) THEN 1 ELSE 0
        c2 == IF id = 0 THEN c
              ELSE IF isc = id % 2
                   THEN [c EXCEPT !.host_num_streams = U32(@ - 1)]
                   ELSE [c EXCEPT !.peer_num_streams = U32(@ - 1)]
    IN [m EXCEPT !.st = DropStream(m.st, id), !.c = c2,
                 !.destroyed = Append(@, m.st[id])]

stream_is_unneeded_before_close(stream) ==
    /\ \/ quicly_sendbuf_transfer_complete(stream.sendbuf)
       \/ stream.rst.sender_state = "acked"
    /\ quicly_recvbuf_transfer_complete(stream.recvbuf)

stream_is_unneeded(stream) ==
    /\ stream.close_called
    /\ \/ quicly_sendbuf_transfer_complete(stream.sendbuf)
       \/ stream.rst.sender_state = "acked"
    /\ quicly_recvbuf_transfer_complete(stream.recvbuf)

destroy_stream_if_unneeded(m, id) ==
    IF stream_is_unneeded(m.st[id]) THEN destroy_stream(m, id) ELSE m

reset_sender(m, id, reason) ==
    LET stream == m.st[id]
        buf1 == quicly_sendbuf_shutdown(stream.sendbuf)
        buf2 == quicly_sendbuf_acked(buf1, 0, buf1.eos)
    IN IF stream.max_sent = stream.sendbuf.eos THEN m
       ELSE IF quicly_sendbuf_transfer_complete(stream.sendbuf)
       THEN [m EXCEPT !.abort = "reset_sender:875"]
       ELSE IF id = 0
       THEN [m EXCEPT !.abort = "on_sendbuf_change:265"]
       ELSE [m EXCEPT !.st[id].sendbuf = buf2,
                      !.st[id].rst = [sender_state |-> "send",
                                      reason |-> reason]]

(***************************************************************************)
(* The ack book (quicly_acks_t): a sequence of entries in allocation       *)
(* order, and the callbacks of the entries.                                *)
(***************************************************************************)
AckEntry(pn, sent_at, kind, id, a, b, which) ==
    [packet_number |-> pn, sent_at |-> sent_at, kind |-> kind,
     stream_id |-> id, start |-> a, end |-> b, which |-> which]

on_ack_stream(m, acked, e) ==
    IF ~HasStream(m, e.stream_id) THEN m
    ELSE IF acked
    THEN destroy_stream_if_unneeded(
             [m EXCEPT !.st[e.stream_id].sendbuf =
                 quicly_sendbuf_acked(@, e.start, e.end)], e.stream_id)
    ELSE [m EXCEPT !.st[e.stream_id].sendbuf =
             quicly_sendbuf_lost(@, e.start, e.end)]

on_ack_max_stream_data(m, acked, e) ==
    IF ~HasStream(m, e.stream_id) THEN m
    ELSE [m EXCEPT !.st[e.stream_id].max_stream_data_sender =
             IF acked THEN quicly_maxsender_acked(@, e.end)
             ELSE quicly_maxsender_lost(@, e.end)]

on_ack_max_data(m, acked, e) ==
    [m EXCEPT !.c.max_data_sender =
        IF acked THEN quicly_maxsender_acked(@, e.end)
        ELSE quicly_maxsender_lost(@, e.end)]

on_ack_stream_state_sender(m, acked, e) ==
    IF ~HasStream(m, e.stream_id) THEN m
    ELSE LET new == IF acked THEN "acked" ELSE "send"
             m1 == IF e.which = "rst"
                   THEN [m EXCEPT !.st[e.stream_id].rst.sender_state = new]
                   ELSE [m EXCEPT
                            !.st[e.stream_id].stop_sending.sender_state = new]
         IN IF acked THEN destroy_stream_if_unneeded(m1, e.stream_id)
            ELSE m1

\* ack->acked(conn, acked, ack)
AckCallback(m, acked, e) ==
    LET m1 == [m EXCEPT !.settled = Append(@, [entry |-> e, acked |-> acked])]
    IN CASE e.kind = "stream" -> on_ack_stream(m1, acked, e)
         [] e.kind = "max_stream_data" -> on_ack_max_stream_data(m1, acked, e)
         [] e.kind = "max_data" -> on_ack_max_data(m1, acked, e)
         [] OTHER -> on_ack_stream_state_sender(m1, acked, e)

\* handle_timeouts with the comparison turned round: it stops at the first
\* entry that is old enough
RECURSIVE handle_timeouts_reversed(_, _)
handle_timeouts_reversed(m, sent_before) ==
    IF m.c.acks = <<>> THEN m
    ELSE LET e == Head(m.c.acks)
         IN IF e.sent_at < sent_before THEN m
            ELSE handle_timeouts_reversed(
                     [AckCallback(m, FALSE, e) EXCEPT !.c.acks = Tail(@)],
                     sent_before)

RECURSIVE handle_timeouts(_, _)
handle_timeouts(m, sent_before) ==
    IF m.c.acks = <<>> THEN m
    ELSE LET e == Head(m.c.acks)
         IN IF sent_before < e.sent_at THEN m
            ELSE handle_timeouts(
                     [AckCallback(m, FALSE, e) EXCEPT !.c.acks = Tail(@)],
                     sent_before)

(***************************************************************************)
(* The sender: struct st_quicly_send_context_t and the packet functions.   *)
(* Pointers into the packet are offsets from target->data.base; target is  *)
(* FALSE when s->target (and with it s->dst) is NULL.                      *)
(***************************************************************************)
Stop(m) == m.abort # "none" \/ m.ret # 0

Frame(t, id, off, len, fin, set) ==
    [t |-> t, id |-> id, off |-> off, len |-> len, fin |-> fin, set |-> set]

NewSendContext(t, max_packets) ==
    [packet_type |-> 255, aead |-> FALSE, now |-> t,
     max_packets |-> max_packets, packets |-> <<>>, allocs |-> 0,
     target |-> FALSE, ttype |-> 0, tpn |-> 0, dst |-> 0, dst_end |-> 0,
     frames |-> <<>>, pad |-> 0]

num_packets(s) == Len(s.packets)

\* commit_send_packet that leaves egress.packet_number as it is
commit_send_packet_keeps_number(m) ==
    LET s == m.s
        tag == IF s.aead THEN AEAD_TAG_SIZE ELSE FNV1A_TAG_SIZE
        pkt == [type |-> s.ttype, packet_number |-> s.tpn,
                len |-> s.dst + tag, frames |-> s.frames, pad |-> s.pad,
                aead |-> s.aead]
    IN [m EXCEPT !.s.packets = Append(@, pkt),
                 !.s.target = FALSE, !.s.dst = 0, !.s.dst_end = 0,
                 !.s.frames = <<>>, !.s.pad = 0]

commit_send_packet(m) ==
    LET s == m.s
        tag == IF s.aead THEN AEAD_TAG_SIZE ELSE FNV1A_TAG_SIZE
        pkt == [type |-> s.ttype, packet_number |-> s.tpn,
                len |-> s.dst + tag, frames |-> s.frames, pad |-> s.pad,
                aead |-> s.aead]
    IN [m EXCEPT !.s.packets = Append(@, pkt),
                 !.c.packet_number = @ + 1,
                 !.s.target = FALSE, !.s.dst = 0, !.s.dst_end = 0,
                 !.s.frames = <<>>, !.s.pad = 0]

prepare_packet(m, min_space) ==
    LET s == m.s
        tag == IF s.aead THEN AEAD_TAG_SIZE ELSE FNV1A_TAG_SIZE
        \* lines 1000-1020: a new packet, when a slot is left
        new_packet(m1) ==
            LET end == m1.c.ctx.max_packet_size - tag
            IN IF num_packets(m1.s) >= m1.s.max_packets THEN m1
               ELSE IF m1.cb.alloc_fail = m1.s.allocs + 1
               THEN [m1 EXCEPT !.ret = PTLS_ERROR_NO_MEMORY,
                               !.s.allocs = @ + 1]
               ELSE IF ~(LONG_HEADER_SIZE < end)
               THEN [m1 EXCEPT !.abort = "prepare_packet:1018"]
               ELSE [m1 EXCEPT !.s.allocs = @ + 1,
                               !.s.target = TRUE,
                               !.s.ttype = s.packet_type,
                               !.s.tpn = m1.c.packet_number,
                               !.s.dst = LONG_HEADER_SIZE,
                               !.s.dst_end = end,
                               !.s.frames = <<>>, !.s.pad = 0]
    IN IF ~(s.dst_end - s.dst < min_space \/ s.ttype # s.packet_type)
       THEN m
       ELSE new_packet(IF s.target
                       THEN commit_send_packet(
                                [m EXCEPT !.s.pad = @ + (s.dst_end - s.dst),
                                          !.s.dst = s.dst_end])
                       ELSE m)

\* an encoder writes size bytes at s->dst; writing past dst_end overruns the
\* packet buffer
EncodeFrame(m, f, size) ==
    IF m.s.dst + size > m.s.dst_end
    THEN [m EXCEPT !.abort = "packet-overrun"]
    ELSE [m EXCEPT !.s.dst = @ + size, !.s.frames = Append(@, f)]

AllocateAck(m, kind, id, a, b, which) ==
    [m EXCEPT !.c.acks = Append(@,
        AckEntry(m.c.packet_number, m.s.now, kind, id, a, b, which))]

(***************************************************************************)
(* ACK frames.  The encoder writes the ranges of the queue from the        *)
(* highest downward, as many as fit before dst_end, and leaves range_index *)
(* at the next range to encode (-1 stands for SIZE_MAX: all encoded).      *)
(***************************************************************************)
quicly_ack_frame_get_minimum_capacity(range_index) ==
    6 + (IF range_index # 0 THEN 1 ELSE 0)

\* the ranges of S as a sequence of <<start, end>>, in increasing order
RECURSIVE RangesOf(_)
RangesOf(S) ==
    IF S = {} THEN <<>>
    ELSE LET a == Min(S)
             e == RangeEnd(S, a, Max(S))
         IN <<<<a, e>>>> \o RangesOf({x \in S : x >= e})

\* how many ranges one frame takes, starting at range_index, in space bytes
AckBlocksThatFit(range_index, space) ==
    LET extra == (space - quicly_ack_frame_get_minimum_capacity(range_index))
                     \div 2
    IN MinOf(range_index + 1, 1 + extra)

RECURSIVE send_ack_loop(_, _, _)
send_ack_loop(m, ranges, range_index) ==
    LET min_space == quicly_ack_frame_get_minimum_capacity(range_index)
        \* the frame that takes the ranges lo..range_index, n of them
        encode(m1, n, lo) ==
            EncodeFrame(m1,
                Frame("ACK", 0, 0, 0, FALSE,
                      UNION {Interval(ranges[i + 1][1], ranges[i + 1][2]) :
                                i \in lo..range_index}),
                min_space + 2 * (n - 1))
        next(m2, lo) ==
            IF lo = 0 THEN m2 ELSE send_ack_loop(m2, ranges, lo - 1)
        fill(m1, n) ==
            next(encode(m1, n, range_index - n + 1), range_index - n + 1)
        prepared(m1) ==
            IF Stop(m1) \/ ~m1.s.target THEN m1
            ELSE fill(m1, AckBlocksThatFit(range_index,
                                           m1.s.dst_end - m1.s.dst))
    IN prepared(prepare_packet(m, min_space))

send_ack(m) ==
    LET \* line 1044: the queue is cleared whatever the loop encoded
        clear(m1) == IF m1.abort # "none" THEN m1
                     ELSE [m1 EXCEPT !.c.ack_queue = {}]
        loop(ranges) == clear(send_ack_loop(m, ranges, Len(ranges) - 1))
    IN IF m.c.ack_queue = {} THEN m
       ELSE loop(RangesOf(m.c.ack_queue))

(***************************************************************************)
(* Flow-control and stream frames.                                         *)
(***************************************************************************)
send_max_data_frame(m) ==
    LET new_value == (m.c.bytes_consumed \div 1024)
                         + m.c.ctx.initial_max_data_kb
        record(m3) == [m3 EXCEPT !.c.max_data_sender =
                                     quicly_maxsender_record(@, new_value)]
        encode(m2) == record(EncodeFrame(m2,
                          Frame("MAX_DATA", 0, new_value, 0, FALSE, {}),
                          QUICLY_MAX_DATA_FRAME_SIZE))
        prepared(m1) ==
            IF Stop(m1) \/ ~m1.s.target THEN m1
            ELSE encode(AllocateAck(m1, "max_data", 0, 0, new_value, ""))
    IN prepared(prepare_packet(m, QUICLY_MAX_DATA_FRAME_SIZE))

send_max_stream_data_frame(m, id) ==
    LET new_value == m.st[id].recvbuf.data_off + m.st[id].window
        record(m3) == [m3 EXCEPT !.st[id].max_stream_data_sender =
                                     quicly_maxsender_record(@, new_value)]
        encode(m2) == record(EncodeFrame(m2,
                          Frame("MAX_STREAM_DATA", id, new_value, 0, FALSE, {}),
                          QUICLY_MAX_STREAM_DATA_FRAME_SIZE))
        prepared(m1) ==
            IF Stop(m1) \/ ~m1.s.target THEN m1
            ELSE encode(AllocateAck(m1, "max_stream_data", id, 0,
                                    new_value, ""))
    IN prepared(prepare_packet(m, QUICLY_MAX_STREAM_DATA_FRAME_SIZE))

stream_id_length(stream_id) ==
    IF stream_id < 256 THEN 1 ELSE IF stream_id < 65536 THEN 2 ELSE 4

offset_length(off) ==
    IF off = 0 THEN 0 ELSE IF off < 65536 THEN 2 ELSE 4

\* m.iter is the local iter.stream_off of send_stream_frames
send_stream_frame(m, id, max_bytes) ==
    LET off == m.iter
        eos == m.st[id].sendbuf.eos
        hdr == 1 + stream_id_length(id) + offset_length(off)
        avail == max_bytes - (IF off + max_bytes > eos THEN 1 ELSE 0)
        \* lines 1137-1150: the send window, then quicly_sendbuf_emit, the
        \* range of which takes the EOS byte when the frame reaches it
        account(m3, copysize, emit_end) ==
            LET max_sent == m3.st[id].max_sent
                delta == off + copysize - max_sent
            IN IF max_sent < off + copysize
               THEN IF id # 0 /\ ~(m3.c.sent + delta <= m3.c.permitted)
                    THEN [m3 EXCEPT !.abort = "send_stream_frame:1141"]
                    ELSE [m3 EXCEPT
                             !.c.sent = IF id # 0 THEN @ + delta ELSE @,
                             !.st[id].max_sent = off + copysize,
                             !.iter = emit_end]
               ELSE [m3 EXCEPT !.iter = emit_end]
        allocate(m2, copysize, emit_end) ==
            IF m2.abort # "none" THEN m2
            ELSE account(AllocateAck(m2, "stream", id, off, emit_end, ""),
                         copysize, emit_end)
        encode(m1, capacity, copysize) ==
            allocate(EncodeFrame(m1,
                         Frame("STREAM", id, off, copysize,
                               off + copysize >= eos, {}),
                         hdr + (IF copysize + 2 < capacity THEN 2 ELSE 0)
                             + copysize),
                     copysize,
                     off + copysize + (IF off + copysize = eos THEN 1 ELSE 0))
        prepared(m1) ==
            IF Stop(m1) \/ ~m1.s.target THEN m1
            ELSE encode(m1, m1.s.dst_end - m1.s.dst - hdr,
                        MinOf(m1.s.dst_end - m1.s.dst - hdr, avail))
    IN prepared(prepare_packet(m, hdr + (IF off # eos THEN 1 ELSE 0)))

\* the while loop of send_stream_frames over one pending range
RECURSIVE send_frames_of_range(_, _, _)
send_frames_of_range(m, id, end) ==
    LET sent(m1) == IF Stop(m1) \/ ~m1.s.target THEN m1
                    ELSE send_frames_of_range(m1, id, end)
    IN IF ~(m.iter < end) THEN m
       ELSE sent(send_stream_frame(m, id, end - m.iter))

\* stream_send_limit without the per-stream window: only the connection
\* credit limits what is sent
stream_send_limit_conn_only(c, stream) ==
    IF stream.max_sent + 1 >= stream.sendbuf.eos
    THEN stream.sendbuf.eos + 1
    ELSE LET limit == stream.max_sent
                          + (IF stream.stream_id # 0 THEN c.permitted - c.sent
                             ELSE stream.max_stream_data - stream.max_sent)
         IN IF limit = stream.sendbuf.eos THEN limit + 1 ELSE limit

\* the flow-control limit send_stream_frames applies to the pending ranges
stream_send_limit(c, stream) ==
    IF stream.max_sent + 1 >= stream.sendbuf.eos
    THEN stream.sendbuf.eos + 1
    ELSE LET delta0 == stream.max_stream_data - stream.max_sent
             delta == IF stream.stream_id # 0 /\ c.permitted - c.sent < delta0
                      THEN c.permitted - c.sent ELSE delta0
             limit == stream.max_sent + delta
         IN IF limit = stream.sendbuf.eos THEN limit + 1 ELSE limit

\* the for loop of send_stream_frames; todo holds the starts of the pending
\* ranges not yet visited.  ShrinkToIter and ShrinkRanges drop what lies
\* before the iterator, respectively before the range reached.
RECURSIVE send_pending_ranges(_, _, _, _)
send_pending_ranges(m, id, max_stream_data, todo) ==
    LET \* lines 1190-1195, with the range pending.ranges[i] = [start, rend)
        sent(m1, start, rend) ==
            IF Stop(m1) THEN m1
            ELSE IF ~m1.s.target \/ m1.iter < rend
            THEN [m1 EXCEPT !.st[id].sendbuf.pending =
                                {x \in @ : x >= m1.iter}]
            ELSE send_pending_ranges(m1, id, max_stream_data,
                                     todo \ {start})
        range(start, rend) ==
            IF max_stream_data <= start
            THEN [m EXCEPT !.st[id].sendbuf.pending = {x \in @ : x >= start}]
            ELSE IF m.iter > start
            THEN [m EXCEPT !.abort = "send_stream_frames:1182"]
            ELSE sent(send_frames_of_range(
                          [m EXCEPT !.iter = IF @ # start THEN start ELSE @],
                          id, MinOf(max_stream_data, rend)),
                      start, rend)
        from(start) ==
            range(start, RangeEnd(m.st[id].sendbuf.pending, start,
                                  m.st[id].sendbuf.len + 1))
    IN IF todo = {} THEN [m EXCEPT !.st[id].sendbuf.pending = {}]
       ELSE from(Min(todo))

send_stream_frames(m, id) ==
    send_pending_ranges([m EXCEPT !.iter = 0], id,
                        stream_send_limit(m.c, m.st[id]),
                        RangeStarts(m.st[id].sendbuf.pending))

\* prepare_stream_state_sender reserves room and allocates the ack entry;
\* send_stream then encodes the frame
prepare_stream_state_sender(m, id, which, min_space) ==
    LET unacked(m2) ==
            IF which = "rst"
            THEN [m2 EXCEPT !.st[id].rst.sender_state = "unacked"]
            ELSE [m2 EXCEPT !.st[id].stop_sending.sender_state = "unacked"]
        prepared(m1) ==
            IF Stop(m1) \/ ~m1.s.target THEN m1
            ELSE unacked(AllocateAck(m1, "state_sender", id, 0, 0, which))
    IN prepared(prepare_packet(m, QUICLY_STOP_SENDING_FRAME_SIZE))

\* lines 1253-1260: MAX_STREAM_DATA, then the STREAM frames
send_stream_data(m, id) ==
    LET stream == m.st[id]
        frames(m1) == IF Stop(m1) THEN m1 ELSE send_stream_frames(m1, id)
    IN frames(IF quicly_maxsender_should_update(
                     stream.max_stream_data_sender, stream.recvbuf.data_off,
                     stream.window, MAXSENDER_MIN_DELTA)
              THEN send_max_stream_data_frame(m, id) ELSE m)

\* lines 1243-1260: RST_STREAM, after which nothing else is sent
send_stream_rst(m, id) ==
    LET prepared(m1) ==
            IF Stop(m1) \/ ~m1.s.target THEN m1
            ELSE EncodeFrame(m1,
                     Frame("RST_STREAM", id, m1.st[id].max_sent,
                           m1.st[id].rst.reason, FALSE, {}),
                     QUICLY_RST_FRAME_SIZE)
    IN IF m.st[id].rst.sender_state # "send" THEN send_stream_data(m, id)
       ELSE prepared(prepare_stream_state_sender(m, id, "rst",
                                                 QUICLY_RST_FRAME_SIZE))

send_stream(m, id) ==
    LET stop_sending == m.st[id].stop_sending.sender_state = "send"
        \* lines 1236-1240
        encode(m1) ==
            IF Stop(m1) \/ ~m1.s.target THEN m1
            ELSE EncodeFrame(m1,
                     Frame("STOP_SENDING", id, 0,
                           m1.st[id].stop_sending.reason, FALSE, {}),
                     QUICLY_STOP_SENDING_FRAME_SIZE)
        \* lines 1243-1260, unless the STOP_SENDING part has returned
        rest(m1) ==
            IF stop_sending /\ (Stop(m1) \/ ~m1.s.target) THEN m1
            ELSE send_stream_rst(m1, id)
    IN IF stream_is_unneeded(m.st[id]) THEN destroy_stream(m, id)
       ELSE rest(IF stop_sending
                 THEN encode(prepare_stream_state_sender(m, id,
                                 "stop_sending",
                                 QUICLY_STOP_SENDING_FRAME_SIZE))
                 ELSE m)

(***************************************************************************)
(* quicly_send.                                                            *)
(***************************************************************************)
\* kh_foreach_value over the non-zero streams, here in increasing id order;
\* todo holds the ids not yet visited
RECURSIVE send_nonzero_streams(_, _)
send_nonzero_streams(m, todo) ==
    IF todo = {} \/ Stop(m) THEN m
    ELSE LET id == Min(todo)
         IN send_nonzero_streams(
                IF HasStream(m, id) THEN send_stream(m, id) ELSE m,
                todo \ {id})

initial_packet_type(c) ==
    IF quicly_is_client(c)
    THEN IF c.state = QUICLY_STATE_BEFORE_SH
         THEN QUICLY_PACKET_TYPE_CLIENT_INITIAL
         ELSE QUICLY_PACKET_TYPE_CLIENT_CLEARTEXT
    ELSE QUICLY_PACKET_TYPE_SERVER_CLEARTEXT

send_cleartext_frames_with_acks(m) ==
    LET crypto_stream(m2) ==
            IF Stop(m2) THEN m2
            ELSE IF ~HasStream(m2, 0) THEN [m2 EXCEPT !.abort = "null-stream"]
            ELSE send_stream(m2, 0)
        acks(m1) ==
            crypto_stream(
                IF m1.s.packet_type # QUICLY_PACKET_TYPE_CLIENT_INITIAL
                THEN send_ack(m1) ELSE m1)
    IN acks([m EXCEPT !.s.packet_type = initial_packet_type(m.c),
                      !.s.aead = FALSE])

\* lines 1291-1307: the cleartext frames
send_cleartext_frames(m) ==
    LET crypto_stream(m2) ==
            IF Stop(m2) THEN m2
            ELSE IF ~HasStream(m2, 0) THEN [m2 EXCEPT !.abort = "null-stream"]
            ELSE send_stream(m2, 0)
        acks(m1) ==
            crypto_stream(
                IF ~m1.c.acks_require_encryption
                   /\ m1.s.packet_type # QUICLY_PACKET_TYPE_CLIENT_INITIAL
                THEN send_ack(m1) ELSE m1)
    IN acks([m EXCEPT !.s.packet_type = initial_packet_type(m.c),
                      !.s.aead = FALSE])

\* quicly_send that leaves the cleartext packet open for the 1-RTT frames
commit_cleartext_packet_left_open(m) == m

\* lines 1308-1318: pad a CLIENT_INITIAL packet and commit the open packet
commit_cleartext_packet(m) ==
    IF Stop(m) \/ ~m.s.target THEN m
    ELSE IF m.s.packet_type # QUICLY_PACKET_TYPE_CLIENT_INITIAL
    THEN commit_send_packet(m)
    ELSE IF num_packets(m.s) # 0
    THEN [m EXCEPT !.ret = QUICLY_ERROR_HANDSHAKE_TOO_LARGE]
    ELSE IF ~(m.s.dst <= CLIENT_INITIAL_MAX_SIZE)
    THEN [m EXCEPT !.abort = "quicly_send:1313"]
    ELSE IF CLIENT_INITIAL_MAX_SIZE + FNV1A_TAG_SIZE > m.c.ctx.max_packet_size
    THEN [m EXCEPT !.abort = "packet-overrun"]
    ELSE commit_send_packet(
             [m EXCEPT !.s.pad = @ + (CLIENT_INITIAL_MAX_SIZE - m.s.dst),
                       !.s.dst = CLIENT_INITIAL_MAX_SIZE])

\* lines 1320-1339: the 1-RTT frames
send_encrypted_frames(m) ==
    LET commit(m3) ==
            IF Stop(m3) \/ ~m3.s.target THEN m3 ELSE commit_send_packet(m3)
        streams_of(m2) ==
            commit(send_nonzero_streams(m2, (DOMAIN m2.st) \ {0}))
        max_data(m1) ==
            streams_of(
                IF ~Stop(m1)
                   /\ quicly_maxsender_should_update(m1.c.max_data_sender,
                          m1.c.bytes_consumed \div 1024,
                          m1.c.ctx.initial_max_data_kb, MAXSENDER_MIN_DELTA)
                THEN send_max_data_frame(m1) ELSE m1)
    IN IF Stop(m) \/ m.c.state # QUICLY_STATE_1RTT_ENCRYPTED THEN m
       ELSE max_data(send_ack(
                [m EXCEPT !.s.packet_type =
                              QUICLY_PACKET_TYPE_1RTT_KEY_PHASE_0,
                          !.s.aead = TRUE]))

quicly_send(m) ==
    send_encrypted_frames(
        commit_cleartext_packet(
            send_cleartext_frames(
                handle_timeouts(m, m.s.now - m.c.ctx.initial_rto))))

(***************************************************************************)
(* Host calls on a stream, and the host callbacks.                         *)
(***************************************************************************)
quicly_close_stream(m, id) ==
    LET stream == m.st[id]
        m1 == IF stream.sendbuf.eos = UINT64_MAX
              THEN [m EXCEPT !.st[id].sendbuf = quicly_sendbuf_shutdown(@)]
              ELSE m
        m2 == IF stream.recvbuf.eos = UINT64_MAX
              THEN [m1 EXCEPT !.st[id].stop_sending =
                       [sender_state |-> "send", reason |-> 0]]
              ELSE m1
    IN IF stream.close_called THEN [m EXCEPT !.abort = "quicly_close_stream:1661"]
       ELSE IF id = 0 /\ stream.sendbuf.eos = UINT64_MAX
       THEN [m EXCEPT !.abort = "on_sendbuf_change:265"]
       ELSE destroy_stream_if_unneeded(
                [m2 EXCEPT !.st[id].close_called = TRUE], id)

\* on_recvbuf_change: consumed bytes of non-zero streams are counted
shift_recvbuf(m, id, n) ==
    [m EXCEPT !.st[id].recvbuf = quicly_recvbuf_shift(@, n),
              !.c.bytes_consumed = IF n # 0 /\ id # 0 THEN @ + n ELSE @]

\* a host that closes the stream once it has consumed it up to the EOS
close_at_eos(m, id) ==
    IF quicly_recvbuf_transfer_complete(m.st[id].recvbuf)
       /\ ~m.st[id].close_called
    THEN quicly_close_stream(m, id) ELSE m

\* on_update of an application stream: what the host does is m.cb.upd:
\* nothing, consume the input, fail, consume and close, consume and close
\* at the EOS ("drain"), or write the input back and close at the EOS
\* ("echo")
app_on_update(m, id) ==
    LET n == recvbuf_get_len(m.st[id].recvbuf)
    IN CASE m.cb.upd = "consume" -> shift_recvbuf(m, id, n)
         [] m.cb.upd = "error" -> [m EXCEPT !.ret = APP_ERROR]
         [] m.cb.upd = "close" ->
                IF m.st[id].close_called THEN shift_recvbuf(m, id, n)
                ELSE quicly_close_stream(shift_recvbuf(m, id, n), id)
         [] m.cb.upd = "drain" -> close_at_eos(shift_recvbuf(m, id, n), id)
         [] m.cb.upd = "echo" ->
                close_at_eos(
                    shift_recvbuf(
                        IF m.st[id].sendbuf.eos # UINT64_MAX THEN m
                        ELSE [m EXCEPT !.st[id].sendbuf =
                                           quicly_sendbuf_write(@, n)],
                        id, n),
                    id)
         [] OTHER -> m

\* setup_1rtt: returns 0 whether or not both keys were installed
setup_1rtt(m) ==
    CASE m.cb.tls.keys = "fail_ingress" -> m
      [] m.cb.tls.keys = "fail_egress" -> [m EXCEPT !.c.ingress_key = TRUE]
      [] OTHER -> [m EXCEPT !.c.ingress_key = TRUE, !.c.egress_key = TRUE,
                            !.c.state = QUICLY_STATE_1RTT_ENCRYPTED]

\* on_update of stream 0.  One ptls_handshake call consumes the input and
\* ends as m.cb.tls says; the collected_extensions callback it may invoke
\* stores the peer's transport parameters.
crypto_stream_receive_handshake(m) ==
    LET tls == m.cb.tls
        called(n) == n # 0
        \* lines 430-449: the switch on the result of the handshake
        result(m2, ret) ==
            IF ret = 0
            THEN IF m2.c.state < QUICLY_STATE_1RTT_ENCRYPTED
                 THEN setup_1rtt([m2 EXCEPT !.c.permitted =
                          m2.c.peer_tp.initial_max_data_kb * 1024])
                 ELSE m2
            ELSE IF ret = PTLS_ERROR_IN_PROGRESS
            THEN IF m2.c.state = QUICLY_STATE_BEFORE_SH
                 THEN [m2 EXCEPT !.c.state = QUICLY_STATE_BEFORE_SF]
                 ELSE m2
            ELSE [m2 EXCEPT !.ret = ret]
        \* line 428: write_tlsbuf
        write(m1, n) ==
            IF called(n) /\ tls.out # 0 /\ m.st[0].sendbuf.eos # UINT64_MAX
            THEN [m EXCEPT !.abort = "on_sendbuf_change:265"]
            ELSE result(IF called(n) /\ tls.out # 0
                        THEN [m1 EXCEPT !.st[0].sendbuf =
                                            quicly_sendbuf_write(@, tls.out)]
                        ELSE m1,
                        IF called(n) THEN tls.ret ELSE PTLS_ERROR_IN_PROGRESS)
        \* lines 424-427: the handshake loop
        handshake(n) ==
            write(IF called(n)
                  THEN [shift_recvbuf(m, 0, n) EXCEPT
                           !.c.peer_tp = IF tls.params = <<>> THEN @
                                         ELSE tls.params[1],
                           !.tls_calls = @ + 1,
                           !.tls_ok = @ \/ tls.ret = 0]
                  ELSE m, n)
    IN handshake(recvbuf_get_len(m.st[0].recvbuf))

\* stream->on_update(stream)
on_update(m, id) ==
    LET m1 == [m EXCEPT !.upd = Append(@, id)]
    IN IF id = 0 THEN crypto_stream_receive_handshake(m1)
       ELSE app_on_update(m1, id)

(***************************************************************************)
(* The receive path: STREAM frames.                                        *)
(***************************************************************************)
do_apply_stream_frame(m, id, off0, len0) ==
    LET buf == m.st[id].recvbuf
        retransmit == off0 < buf.data_off
        off == IF retransmit THEN buf.data_off ELSE off0
        len == IF retransmit THEN len0 - (buf.data_off - off0) ELSE len0
        prev_end == FirstEnd(buf.received)
        w == quicly_recvbuf_write(buf, off, len)
        m1 == [m EXCEPT !.st[id].recvbuf = w[2]]
        \* the fast (copyless) path
        fast == buf.data_off = off /\ recvbuf_data_len(buf) = 0
    IN IF retransmit /\ off0 + len0 <= buf.data_off THEN m
       ELSE IF ~fast /\ w[1] # 0 THEN [m EXCEPT !.ret = w[1]]
       ELSE IF fast \/ prev_end # FirstEnd(w[2].received)
                    \/ prev_end = buf.eos
       THEN on_update(IF fast
                      THEN [m EXCEPT !.st[id].recvbuf.received =
                                         @ \cup Interval(off, off + len)]
                      ELSE m1, id)
       ELSE m1

apply_stream_frame(m, id, f) ==
    LET e == quicly_recvbuf_mark_eos(m.st[id].recvbuf, f.off + f.len)
    IN IF f.fin /\ e[1] # 0 THEN [m EXCEPT !.ret = e[1]]
       ELSE do_apply_stream_frame(
                IF f.fin THEN [m EXCEPT !.st[id].recvbuf = e[2]] ELSE m,
                id, f.off, f.len)

\* the do-while loop of get_stream_or_open_if_new; seen holds the ids the
\* loop has opened.  m.found is *stream: <<id>>, or <<>> for NULL.  The
\* loop never ends when it comes back to an id it has opened.
RECURSIVE open_streams_upto(_, _, _)
open_streams_upto(m, stream_id, seen) ==
    LET id == m.c.peer_next_stream_id
        m1 == [m EXCEPT !.st = PutStream(@, open_stream(m.c, id)),
                        !.opened = Append(@, id)]
        m2 == [m1 EXCEPT !.c.peer_num_streams = U32(@ + 1),
                         !.c.peer_next_stream_id = U32(@ + 2),
                         !.found = <<id>>]
    IN IF id \in seen
       THEN [m EXCEPT !.abort = "get_stream_or_open_if_new:endless"]
       ELSE IF m.cb.open_ret # 0
       THEN [m1 EXCEPT !.ret = m.cb.open_ret, !.found = <<>>]
       ELSE IF stream_id # id
       THEN open_streams_upto(m2, stream_id, seen \cup {id})
       ELSE IF m2.c.peer_next_stream_id < 2
       THEN [m2 EXCEPT !.c.peer_next_stream_id = 0]
       ELSE m2

get_stream_or_open_if_new(m, stream_id) ==
    IF HasStream(m, stream_id) THEN [m EXCEPT !.found = <<stream_id>>]
    ELSE IF /\ stream_id % 2 # (IF quicly_is_client(m.c) THEN 1 ELSE 0)
            /\ m.c.peer_next_stream_id # 0
            /\ m.c.peer_next_stream_id <= stream_id
    THEN open_streams_upto([m EXCEPT !.found = <<>>], stream_id, {})
    ELSE [m EXCEPT !.found = <<>>]

handle_stream_frame(m, f) ==
    LET apply(m1) == IF Stop(m1) \/ m1.found = <<>> THEN m1
                     ELSE apply_stream_frame(m1, m1.found[1], f)
    IN apply(get_stream_or_open_if_new(m, f.id))

(***************************************************************************)
(* The receive path: the other frames.                                     *)
(***************************************************************************)
\* handle_rst_stream_frame that also refuses a final offset equal to the
\* highest received offset
handle_rst_stream_frame_strict(m, f) ==
    LET updated(m1, m2, id) ==
            IF ~Stop(m2) /\ HasStream(m2, id)
            THEN destroy_stream_if_unneeded(m2, id)
            ELSE [m1 EXCEPT !.ret = QUICLY_ERROR_TBD]
        reset(m1, id, buf) ==
            IF buf.eos = UINT64_MAX /\ f.off > LastEnd(buf.received)
            THEN updated(m1,
                     on_update(
                         [m1 EXCEPT !.st[id].recvbuf =
                                        quicly_recvbuf_mark_eos(@, f.off)[2],
                                    !.st[id].rst_reason = f.reason], id),
                     id)
            ELSE [m1 EXCEPT !.ret = QUICLY_ERROR_TBD]
        found(m1) == IF Stop(m1) \/ m1.found = <<>> THEN m1
                     ELSE reset(m1, m1.found[1], m1.st[m1.found[1]].recvbuf)
    IN found(get_stream_or_open_if_new(m, f.id))

handle_rst_stream_frame(m, f) ==
    LET \* line 1408 reads the stream again after on_update
        finish(mm, id) == IF ~HasStream(mm, id)
                          THEN [mm EXCEPT !.abort = "use-after-free"]
                          ELSE destroy_stream_if_unneeded(mm, id)
        updated(m2, id) == IF Stop(m2) THEN m2 ELSE finish(m2, id)
        \* lines 1396-1406; buf is stream->recvbuf
        reset(m1, id, buf) ==
            IF buf.eos = UINT64_MAX
            THEN IF f.off < LastEnd(buf.received)
                 THEN [m1 EXCEPT !.ret = QUICLY_ERROR_TBD]
                 ELSE updated(
                          on_update(
                              [m1 EXCEPT
                                  !.st[id].recvbuf =
                                      quicly_recvbuf_mark_eos(@, f.off)[2],
                                  !.st[id].rst_reason = f.reason], id),
                          id)
            ELSE IF f.off # LastEnd(buf.received)
                 THEN [m1 EXCEPT !.ret = QUICLY_ERROR_TBD]
                 ELSE finish(m1, id)
        found(m1) == IF Stop(m1) \/ m1.found = <<>> THEN m1
                     ELSE reset(m1, m1.found[1], m1.st[m1.found[1]].recvbuf)
    IN found(get_stream_or_open_if_new(m, f.id))

(***************************************************************************)
(* The receive path: ACK and the flow-control frames.                      *)
(***************************************************************************)
RemoveAt(seq, i) == SubSeq(seq, 1, i - 1) \o SubSeq(seq, i + 1, Len(seq))

\* The loops of handle_ack_frame.  i is the iterator (an index into the
\* ack book, past its end when quicly_acks_get returns NULL).  The result
\* is <<m, i, exit>>; exit is TRUE after goto Exit.
\* a walk that never skips the entries older than the block
ack_skip_older_none(m, i, packet_number) == <<m, i, FALSE>>

RECURSIVE ack_skip_older(_, _, _)
ack_skip_older(m, i, packet_number) ==
    IF m.c.acks[i].packet_number < packet_number
    THEN IF i + 1 > Len(m.c.acks) THEN <<m, i + 1, TRUE>>
         ELSE ack_skip_older(m, i + 1, packet_number)
    ELSE <<m, i, FALSE>>

\* a walk that invokes the callbacks and releases nothing
RECURSIVE ack_entries_of_unreleased(_, _, _)
ack_entries_of_unreleased(m, i, packet_number) ==
    IF i <= Len(m.c.acks) /\ m.c.acks[i].packet_number = packet_number
    THEN ack_entries_of_unreleased(AckCallback(m, TRUE, m.c.acks[i]),
                                   i + 1, packet_number)
    ELSE <<m, i, i > Len(m.c.acks)>>

RECURSIVE ack_entries_of(_, _, _)
ack_entries_of(m, i, packet_number) ==
    IF i <= Len(m.c.acks) /\ m.c.acks[i].packet_number = packet_number
    THEN LET m1 == AckCallback(m, TRUE, m.c.acks[i])
         IN ack_entries_of([m1 EXCEPT !.c.acks = RemoveAt(@, i)],
                           i, packet_number)
    ELSE <<m, i, i > Len(m.c.acks)>>

RECURSIVE ack_block(_, _, _, _)
ack_block(m, i, packet_number, block_length) ==
    LET next(r) ==
            IF r[3] THEN r
            ELSE IF block_length - 1 # 0
            THEN ack_block(r[1], r[2], packet_number + 1, block_length - 1)
            ELSE r
    IN next(ack_entries_of(m, i, packet_number))

RECURSIVE ack_blocks(_, _, _, _, _)
ack_blocks(m, f, i, packet_number, gap_index) ==
    LET block_length == f.blocks[gap_index + 1]
        next(r) ==
            IF r[3] \/ gap_index = 0 THEN r[1]
            ELSE ack_blocks(r[1], f, r[2],
                            packet_number + block_length + f.gaps[gap_index],
                            gap_index - 1)
        block(sk) ==
            IF sk[3] THEN sk
            ELSE ack_block(sk[1], sk[2], packet_number, block_length)
    IN next(IF block_length = 0 THEN <<m, i, FALSE>>
            ELSE block(ack_skip_older(m, i, packet_number)))

handle_ack_frame(m, f) ==
    IF m.c.acks = <<>> THEN m
    ELSE ack_blocks(m, f, 1, f.off, Len(f.gaps))

handle_max_stream_data_frame(m, f) ==
    IF ~HasStream(m, f.id) THEN m
    ELSE IF f.off < m.st[f.id].max_stream_data
    THEN [m EXCEPT !.ret = QUICLY_ERROR_TBD]
    ELSE [m EXCEPT !.st[f.id].max_stream_data = f.off]

handle_stop_sending_frame(m, f) ==
    LET reset(m1) == IF Stop(m1) \/ m1.found = <<>> THEN m1
                     ELSE reset_sender(m1, m1.found[1], QUICLY_ERROR_TBD)
    IN reset(get_stream_or_open_if_new(m, f.id))

handle_max_data_frame(m, f) ==
    LET new_value == f.off * 1024
    IN IF new_value < m.c.permitted THEN [m EXCEPT !.ret = QUICLY_ERROR_TBD]
       ELSE [m EXCEPT !.c.permitted = new_value]

(***************************************************************************)
(* quicly_receive.  A decoded packet is                                    *)
(*   [type, is_long_header, connection_id, packet_number, verified,        *)
(*    frames]: verified says whether the checksum or the AEAD tag is       *)
(*   right, frames is the payload as a sequence of frames.  A frame is     *)
(*   [t, id, off, len, fin, reason, blocks, gaps]; t = "BAD" is a frame    *)
(*   the decoder rejects, t = "UNKNOWN" a type byte the switch has no case *)
(*   for.                                                                  *)
(***************************************************************************)
RFrame(t, id, off, len, fin, reason, blocks, gaps) ==
    [t |-> t, id |-> id, off |-> off, len |-> len, fin |-> fin,
     reason |-> reason, blocks |-> blocks, gaps |-> gaps]

\* one iteration of the frame loop; m.should_ack is the local should_ack
handle_frame(m, f) ==
    LET ack(mm) == IF Stop(mm) THEN mm ELSE [mm EXCEPT !.should_ack = TRUE]
        done(mm) == [mm EXCEPT !.nframes = @ + 1]
    IN done(
       CASE f.t = "BAD" -> [m EXCEPT !.ret = QUICLY_ERROR_INVALID_FRAME_DATA]
         [] f.t = "STREAM" -> ack(handle_stream_frame(m, f))
         [] f.t = "ACK" -> handle_ack_frame(m, f)
         [] f.t = "PADDING" -> ack(m)
         [] f.t = "RST_STREAM" -> ack(handle_rst_stream_frame(m, f))
         [] f.t = "MAX_DATA" -> ack(handle_max_data_frame(m, f))
         [] f.t = "MAX_STREAM_DATA" -> ack(handle_max_stream_data_frame(m, f))
         [] f.t = "STOP_SENDING" -> ack(handle_stop_sending_frame(m, f))
         [] OTHER -> [m EXCEPT !.abort = "quicly_receive:1627"])

RECURSIVE handle_frames(_, _)
handle_frames(m, frames) ==
    IF frames = <<>> \/ Stop(m) THEN m
    ELSE handle_frames(handle_frame(m, Head(frames)), Tail(frames))

\* lines 1511-1569: the checks made before any frame is read.  The result
\* is <<ret, proceed, aead>>.
receive_precheck(c, p) ==
    LET bad == <<QUICLY_ERROR_INVALID_PACKET_HEADER, FALSE, FALSE>>
        isc == quicly_is_client(c)
        sel ==
          CASE p.type = QUICLY_PACKET_TYPE_CLIENT_CLEARTEXT ->
                   IF isc THEN bad ELSE <<0, TRUE, FALSE>>
            [] p.type = QUICLY_PACKET_TYPE_SERVER_CLEARTEXT ->
                   IF ~isc THEN bad ELSE <<0, TRUE, FALSE>>
            [] p.type = QUICLY_PACKET_TYPE_0RTT_PROTECTED -> bad
            [] p.type = QUICLY_PACKET_TYPE_1RTT_KEY_PHASE_0 ->
                   IF c.ingress_key THEN <<0, TRUE, TRUE>>
                   ELSE IF c.state = QUICLY_STATE_1RTT_ENCRYPTED THEN bad
                   ELSE <<0, FALSE, FALSE>>
            [] p.type = QUICLY_PACKET_TYPE_1RTT_KEY_PHASE_1 -> bad
            [] p.type = QUICLY_PACKET_TYPE_CLIENT_INITIAL -> <<0, FALSE, FALSE>>
            [] OTHER -> bad
    IN IF ~p.is_long_header /\ c.state # QUICLY_STATE_1RTT_ENCRYPTED THEN bad
       ELSE IF ~sel[2] THEN sel
       ELSE IF ~p.verified
       THEN <<QUICLY_ERROR_DECRYPTION_FAILURE, FALSE, sel[3]>>
       ELSE IF p.frames = <<>>
       THEN <<QUICLY_ERROR_INVALID_FRAME_DATA, FALSE, sel[3]>>
       ELSE sel

quicly_receive(m, p) ==
    LET \* lines 1633-1638; aead is whether the packet was decrypted
        schedule_ack(m1, aead) ==
            IF Stop(m1) \/ ~m1.should_ack THEN m1
            ELSE [m1 EXCEPT !.c.ack_queue = @ \cup {p.packet_number},
                            !.c.acks_require_encryption = @ \/ aead]
        checked(m0, pre) ==
            IF p.connection_id # m0.c.connection_id
            THEN [m0 EXCEPT !.ret = QUICLY_ERROR_PACKET_IGNORED]
            ELSE IF ~pre[2] THEN [m0 EXCEPT !.ret = pre[1]]
            ELSE schedule_ack(handle_frames(m0, p.frames), pre[3])
        \* line 1503
        stored(m0) == checked(m0, receive_precheck(m0.c, p))
    IN stored([m EXCEPT !.c.connection_id = p.connection_id])

(***************************************************************************)
(* Construction: quicly_connect and quicly_accept.                         *)
(***************************************************************************)
transport_params_before_handshake ==
    [initial_max_stream_data |-> 8192, initial_max_data_kb |-> 16]

Ctx(max_packet_size, initial_rto, imsd, imd_kb) ==
    [max_packet_size |-> max_packet_size, initial_rto |-> initial_rto,
     initial_max_stream_data |-> imsd, initial_max_data_kb |-> imd_kb]

\* what the host callbacks and TLS do during one library call
Tls(ret, out, params, keys) ==
    [ret |-> ret, out |-> out, params |-> params, keys |-> keys]
NoTls == Tls(PTLS_ERROR_IN_PROGRESS, 0, <<>>, "ok")
Callbacks(upd, open_ret, tls, alloc_fail) ==
    [upd |-> upd, open_ret |-> open_ret, tls |-> tls,
     alloc_fail |-> alloc_fail]
NoCallbacks == Callbacks("noop", 0, NoTls, 0)

Machine(c, st, s, cb) ==
    [c |-> c, st |-> st, s |-> s, cb |-> cb, ret |-> 0, abort |-> "none",
     upd |-> <<>>, opened |-> <<>>, destroyed |-> <<>>, settled |-> <<>>,
     iter |-> 0, found |-> <<>>, should_ack |-> FALSE, nframes |-> 0,
     tls_calls |-> 0, tls_ok |-> FALSE]

create_connection(ctx, is_client) ==
    LET c == [ctx |-> ctx, role |-> IF is_client THEN "client" ELSE "server",
              connection_id |-> 0,
              state |-> QUICLY_STATE_BEFORE_SH,
              host_num_streams |-> 0,
              host_next_stream_id |-> IF is_client THEN 1 ELSE 2,
              peer_num_streams |-> 0,
              peer_next_stream_id |-> IF is_client THEN 2 ELSE 1,
              peer_tp |-> transport_params_before_handshake,
              ingress_key |-> FALSE, egress_key |-> FALSE,
              ack_queue |-> {}, bytes_consumed |-> 0,
              max_data_sender |->
                  quicly_maxsender_init(ctx.initial_max_data_kb),
              acks |-> <<>>, packet_number |-> 0,
              permitted |-> 0, sent |-> 0,
              acks_require_encryption |-> FALSE]
    IN Machine(c, (0 :> open_stream(c, 0)), NewSendContext(0, 0), NoCallbacks)

\* the client: the first TLS flight (the ClientHello, hello_len bytes) is
\* written to stream 0
quicly_connect(ctx, hello_len) ==
    LET m == create_connection(ctx, TRUE)
    IN [m EXCEPT !.st[0].sendbuf = quicly_sendbuf_write(@, hello_len)]

\* the server: the Client Initial packet p (one STREAM frame of stream 0 at
\* offset 0) is applied to a new connection
quicly_accept(ctx, p, cb) ==
    LET m == [create_connection(ctx, FALSE) EXCEPT !.cb = cb]
        m1 == [m EXCEPT !.c.ack_queue = @ \cup {p.packet_number}]
        m2 == apply_stream_frame(m1, 0, p.frames[1])
    IN IF ~Stop(m2) /\ m2.st[0].recvbuf.data_off # p.frames[1].len
       THEN [m2 EXCEPT !.ret = QUICLY_ERROR_TBD]
       ELSE m2

(***************************************************************************)
(* The actions: one per library call.  A process that has failed an        *)
(* assertion makes no further call.                                        *)
(***************************************************************************)
NoCall ==
    [op |-> "init", arg |-> <<>>, ret |-> 0, abort |-> "none",
     packets |-> <<>>, upd |-> <<>>, opened |-> <<>>, destroyed |-> <<>>,
     settled |-> <<>>, nframes |-> 0, tls_calls |-> 0, tls_ok |-> FALSE]

Call(op, arg, m) ==
    [op |-> op, arg |-> arg, ret |-> m.ret, abort |-> m.abort,
     packets |-> m.s.packets, upd |-> m.upd, opened |-> m.opened,
     destroyed |-> m.destroyed, settled |-> m.settled, nframes |-> m.nframes,
     tls_calls |-> m.tls_calls, tls_ok |-> m.tls_ok]

Alive == last.abort = "none"

\* the specifications of one connection leave the other end alone
OneConnection == UNCHANGED <<remote, wire, app>>

Finish(op, arg, m) ==
    /\ conn' = m.c
    /\ streams' = m.st
    /\ last' = Call(op, arg, m)
    /\ OneConnection

\* quicly_send, while the packet number is below limit
SendBelow(limit, n_in, cb) ==
    /\ Alive
    /\ conn.packet_number < limit
    /\ Finish("send", <<n_in>>,
              quicly_send(Machine(conn, streams, NewSendContext(now, n_in), cb)))
    /\ UNCHANGED now

Send(n_in, cb) == SendBelow(MaxPn, n_in, cb)

Receive(p, cb) ==
    /\ Alive
    /\ Finish("receive", <<p>>,
              quicly_receive(Machine(conn, streams, NewSendContext(now, 0), cb),
                             p))
    /\ UNCHANGED now

quicly_open_stream(m) ==
    LET id == m.c.host_next_stream_id
        next == U32(id + 2)
    IN IF id = 0 THEN [m EXCEPT !.ret = QUICLY_ERROR_TOO_MANY_OPEN_STREAMS]
       ELSE [m EXCEPT !.st = PutStream(@, open_stream(m.c, id)),
                      !.found = <<id>>,
                      !.c.host_num_streams = U32(@ + 1),
                      !.c.host_next_stream_id = IF next < 2 THEN 0 ELSE next]

OpenStream ==
    /\ Alive
    /\ Finish("open_stream", <<conn.host_next_stream_id>>,
              quicly_open_stream(
                  Machine(conn, streams, NewSendContext(now, 0), NoCallbacks)))
    /\ UNCHANGED now

CloseStream(id) ==
    /\ Alive
    /\ id \in DOMAIN streams /\ id # 0
    /\ ~streams[id].close_called
    /\ Finish("close_stream", <<id>>,
              quicly_close_stream(
                  Machine(conn, streams, NewSendContext(now, 0), NoCallbacks),
                  id))
    /\ UNCHANGED now

\* the host writes n bytes to the send buffer of an open stream
Write(id, n) ==
    /\ Alive
    /\ id \in DOMAIN streams /\ id # 0
    /\ streams[id].sendbuf.eos = UINT64_MAX
    /\ streams[id].sendbuf.len + n <= MaxLen
    /\ streams' = [streams EXCEPT ![id].sendbuf = quicly_sendbuf_write(@, n)]
    /\ last' = [NoCall EXCEPT !.op = "write", !.arg = <<id, n>>]
    /\ UNCHANGED <<conn, now>>
    /\ OneConnection

\* the host shuts down the send side of an open stream
Shutdown(id) ==
    /\ Alive
    /\ id \in DOMAIN streams /\ id # 0
    /\ streams[id].sendbuf.eos = UINT64_MAX
    /\ streams' = [streams EXCEPT ![id].sendbuf = quicly_sendbuf_shutdown(@)]
    /\ last' = [NoCall EXCEPT !.op = "shutdown", !.arg = <<id>>]
    /\ UNCHANGED <<conn, now>>
    /\ OneConnection

\* time passes
Tick ==
    /\ Alive
    /\ now < MaxTime
    /\ now' = now + 1
    /\ last' = [NoCall EXCEPT !.op = "tick"]
    /\ UNCHANGED <<conn, streams>>
    /\ OneConnection

(***************************************************************************)
(* Inputs: contexts, packets from the peer, outcomes of the callbacks.     *)
(***************************************************************************)
DefaultCtx == Ctx(1280, 1, 8192, 16)

Packet(type, is_long_header, connection_id, packet_number, verified, frames) ==
    [type |-> type, is_long_header |-> is_long_header,
     connection_id |-> connection_id, packet_number |-> packet_number,
     verified |-> verified, frames |-> frames]

StreamFrame(id, off, len, fin) ==
    RFrame("STREAM", id, off, len, fin, 0, <<>>, <<>>)
AckFrame(smallest, blocks, gaps) ==
    RFrame("ACK", 0, smallest, 0, FALSE, 0, blocks, gaps)
PaddingFrame == RFrame("PADDING", 0, 0, 0, FALSE, 0, <<>>, <<>>)
RstStreamFrame(id, final_offset, reason) ==
    RFrame("RST_STREAM", id, final_offset, 0, FALSE, reason, <<>>, <<>>)
MaxDataFrame(max_data_kb) ==
    RFrame("MAX_DATA", 0, max_data_kb, 0, FALSE, 0, <<>>, <<>>)
MaxStreamDataFrame(id, max_stream_data) ==
    RFrame("MAX_STREAM_DATA", id, max_stream_data, 0, FALSE, 0, <<>>, <<>>)
StopSendingFrame(id) ==
    RFrame("STOP_SENDING", id, 0, 0, FALSE, 0, <<>>, <<>>)

\* transport parameters a peer may announce
PeerParams ==
    [initial_max_stream_data : {1}, initial_max_data_kb : {0, 1}]

\* outcomes of one ptls_handshake call: more input needed, handshake
\* complete (with or without the peer's transport parameters, with or
\* without both keys derived), failure
TlsOutcomes ==
    {Tls(PTLS_ERROR_IN_PROGRESS, 0, <<>>, "ok"),
     Tls(PTLS_ALERT_HANDSHAKE_FAILURE, 0, <<>>, "ok"),
     Tls(0, 1, <<>>, "ok")}
    \cup {Tls(0, 1, <<pp>>, "ok") : pp \in PeerParams}

\* the type of the cleartext packets the peer of c sends
peer_cleartext_type(c) ==
    IF c.role = "client" THEN QUICLY_PACKET_TYPE_SERVER_CLEARTEXT
    ELSE QUICLY_PACKET_TYPE_CLIENT_CLEARTEXT

\* A connection that has completed the handshake: the calls a client or a
\* server makes up to the 1-RTT state, with the peer announcing the
\* transport parameters pp and acknowledging every handshake packet.
SendOnce(m, t) ==
    quicly_send(Machine(m.c, m.st, NewSendContext(t, 1), NoCallbacks))
ReceiveOnce(m, p, tls) ==
    quicly_receive(Machine(m.c, m.st, NewSendContext(0, 0),
                           Callbacks("noop", 0, tls, 0)), p)

EstablishedClient(ctx, pp) ==
    LET m0 == quicly_connect(ctx, 1)
        m1 == SendOnce(m0, 0)
        m2 == ReceiveOnce(m1,
                  Packet(QUICLY_PACKET_TYPE_SERVER_CLEARTEXT, TRUE, 0, 0, TRUE,
                         <<AckFrame(0, <<1>>, <<>>), StreamFrame(0, 0, 1, FALSE)>>),
                  Tls(0, 1, <<pp>>, "ok"))
        m3 == SendOnce(m2, 0)
    IN ReceiveOnce(m3,
           Packet(QUICLY_PACKET_TYPE_SERVER_CLEARTEXT, TRUE, 0, 1, TRUE,
                  <<AckFrame(1, <<1>>, <<>>)>>), NoTls)

EstablishedServer(ctx, pp) ==
    LET m0 == quicly_accept(ctx,
                  Packet(QUICLY_PACKET_TYPE_CLIENT_INITIAL, TRUE, 0, 0, TRUE,
                         <<StreamFrame(0, 0, 1, FALSE)>>),
                  Callbacks("noop", 0,
                            Tls(PTLS_ERROR_IN_PROGRESS, 1, <<pp>>, "ok"), 0))
        m1 == SendOnce(m0, 0)
        m2 == ReceiveOnce(m1,
                  Packet(QUICLY_PACKET_TYPE_CLIENT_CLEARTEXT, TRUE, 0, 1, TRUE,
                         <<AckFrame(0, <<1>>, <<>>), StreamFrame(0, 1, 1, FALSE)>>),
                  Tls(0, 0, <<>>, "ok"))
    IN SendOnce(m2, 0)

\* no connection at the other end, nothing in flight, no host at work
NoRemote == [c |-> <<>>, st |-> <<>>]
NoWire == [up |-> {}, down |-> {}, dropped |-> 0]
NoApp == [id |-> 0, written |-> 0, shut |-> FALSE, client |-> <<>>,
          server |-> <<>>, idle |-> {}]

StartFrom(m) ==
    /\ m.ret = 0 /\ m.abort = "none"
    /\ conn = m.c
    /\ streams = m.st
    /\ now = 0
    /\ last = NoCall
    /\ remote = NoRemote
    /\ wire = NoWire
    /\ app = NoApp

(***************************************************************************)
(* The stream specification: an established connection on which the host   *)
(* opens streams, writes, shuts down and sends, while the peer             *)
(* acknowledges, raises the limits and asks to stop sending.               *)
(***************************************************************************)
InitStreams ==
    \E pp \in PeerParams :
        \/ StartFrom(EstablishedClient(DefaultCtx, pp))
        \/ StartFrom(EstablishedServer(DefaultCtx, pp))

\* the first stream id the host of c opens
first_host_stream_id(c) == IF c.role = "client" THEN 1 ELSE 2

\* received packets use one packet number: MaxPn + 1
StreamsPacket(frames) ==
    Packet(QUICLY_PACKET_TYPE_1RTT_KEY_PHASE_0, FALSE, 0, MaxPn + 1, TRUE, frames)

\* the peer acknowledges one of the two packets sent last
ReceiveAck ==
    \E back \in 1..2 :
        /\ conn.packet_number >= back
        /\ Receive(StreamsPacket(
               <<AckFrame(conn.packet_number - back, <<1>>, <<>>)>>), NoCallbacks)

StreamsFrames ==
    {MaxDataFrame(1),
     MaxStreamDataFrame(first_host_stream_id(conn), MaxLen),
     StopSendingFrame(first_host_stream_id(conn))}

OpenStreamUpTo(limit) ==
    /\ Cardinality(DOMAIN streams) <= limit
    /\ OpenStream

NextStreams ==
    \/ OpenStreamUpTo(MaxStreams)
    \/ \E id \in 1..2, n \in 1..MaxLen : Write(id, n)
    \/ \E id \in 1..2 : Shutdown(id)
    \/ \E n_in \in 0..1 : Send(n_in, NoCallbacks)
    \/ ReceiveAck
    \/ \E f \in StreamsFrames : Receive(StreamsPacket(<<f>>), NoCallbacks)
    \/ Tick

SpecStreams == InitStreams /\ [][NextStreams]_vars

(***************************************************************************)
(* The handshake specification: a connection from its construction.  The   *)
(* client has written a ClientHello of one of HelloLens bytes; the server  *)
(* has accepted a Client Initial packet.  The peer sends handshake data,   *)
(* acknowledgements and padding, in cleartext and 1-RTT packets, with the  *)
(* stored connection id or another one, intact or corrupted.               *)
(***************************************************************************)
HelloLens == {1, 1253, 1254}

Init ==
    \/ \E hello_len \in HelloLens :
           StartFrom(quicly_connect(DefaultCtx, hello_len))
    \/ \E pp \in PeerParams :
           StartFrom(quicly_accept(DefaultCtx,
               Packet(QUICLY_PACKET_TYPE_CLIENT_INITIAL, TRUE, 0, 0, TRUE,
                      <<StreamFrame(0, 0, 1, FALSE)>>),
               Callbacks("noop", 0,
                         Tls(PTLS_ERROR_IN_PROGRESS, 1, <<pp>>, "ok"), 0)))

own_cleartext_type(c) ==
    IF c.role = "client" THEN QUICLY_PACKET_TYPE_CLIENT_CLEARTEXT
    ELSE QUICLY_PACKET_TYPE_SERVER_CLEARTEXT

\* a cleartext packet of the peer with the next byte of its handshake
\* flight; TLS ends the step in one of the outcomes
ReceiveHandshakeWith(outcomes) ==
    \E tls \in outcomes :
        /\ streams[0].recvbuf.data_off < MaxLen
        /\ Receive(Packet(peer_cleartext_type(conn), TRUE, conn.connection_id,
                          1, TRUE,
                          <<StreamFrame(0, streams[0].recvbuf.data_off, 1,
                                        FALSE)>>),
                   Callbacks("noop", 0, tls, 0))

Next ==
    \/ \E n_in \in 1..2 : Send(n_in, NoCallbacks)
    \/ ReceiveHandshakeWith(TlsOutcomes)
    \/ Tick

Spec == Init /\ [][Next]_vars

(***************************************************************************)
(* The packet specification: the peer sends packets that carry no stream   *)
(* data (padding and acknowledgements), in cleartext and 1-RTT packets,    *)
(* with the stored connection id or another one, intact or corrupted.      *)
(***************************************************************************)
InitPackets ==
    \/ StartFrom(quicly_connect(DefaultCtx, 1))
    \/ \E pp \in PeerParams :
           StartFrom(EstablishedServer(DefaultCtx, pp))

PaddingPayloads ==
    {<<PaddingFrame>>,
     <<PaddingFrame, AckFrame(0, <<MaxPn>>, <<>>)>>,
     <<AckFrame(0, <<MaxPn>>, <<>>)>>}

PaddingPackets ==
    {Packet(peer_cleartext_type(conn), TRUE, cid, 1, TRUE, frames) :
         cid \in 0..1, frames \in PaddingPayloads}
    \cup {Packet(peer_cleartext_type(conn), TRUE, cid, 1, FALSE,
                 <<PaddingFrame>>) : cid \in 0..1}
    \cup {Packet(own_cleartext_type(conn), TRUE, conn.connection_id, 1, TRUE,
                 <<PaddingFrame>>)}
    \cup {Packet(QUICLY_PACKET_TYPE_1RTT_KEY_PHASE_0, FALSE,
                 conn.connection_id, 2, TRUE, frames) :
             frames \in PaddingPayloads}

NextPackets ==
    \/ Send(1, NoCallbacks)
    \/ ReceiveHandshakeWith({Tls(0, 1, <<pp>>, "ok") : pp \in PeerParams})
    \/ \E p \in PaddingPackets : Receive(p, NoCallbacks)

SpecPackets == InitPackets /\ [][NextPackets]_vars

(***************************************************************************)
(* The receive specification: an established connection on which the peer  *)
(* sends STREAM and RST_STREAM frames for its first stream and             *)
(* acknowledges, and the host closes that stream and sends.  on_update     *)
(* does nothing, consumes what has arrived, fails, or closes the stream.   *)
(***************************************************************************)
first_peer_stream_id(c) == IF c.role = "client" THEN 2 ELSE 1

RecvFrames ==
    {StreamFrame(first_peer_stream_id(conn), off, len, fin) :
         off \in 0..(MaxLen - 1), len \in 1..MaxLen, fin \in BOOLEAN}
    \cup {RstStreamFrame(first_peer_stream_id(conn), final_offset, 1) :
             final_offset \in 0..MaxLen}

NextRecv ==
    \/ CloseStream(first_peer_stream_id(conn))
    \/ Send(1, NoCallbacks)
    \/ ReceiveAck
    \/ \E f \in RecvFrames, upd \in {"noop", "consume", "error", "close"} :
           /\ f.off + f.len <= MaxLen
           /\ Receive(StreamsPacket(<<f>>), Callbacks(upd, 0, NoTls, 0))

SpecRecv == InitStreams /\ [][NextRecv]_vars

(***************************************************************************)
(* The id specification: stream ids are IdBits wide.  The host opens       *)
(* streams until the ids are used up and closes its second stream; the     *)
(* peer acknowledges, resets that stream and sends data on it.             *)
(***************************************************************************)
second_host_stream_id(c) == first_host_stream_id(c) + 2

IdsFrames ==
    {StreamFrame(second_host_stream_id(conn), 0, 1, TRUE),
     StreamFrame(first_peer_stream_id(conn) + 2, 0, 1, TRUE),
     RstStreamFrame(second_host_stream_id(conn), 0, 1)}

NextIds ==
    \/ OpenStream
    \/ CloseStream(second_host_stream_id(conn))
    \/ Send(1, NoCallbacks)
    \/ ReceiveAck
    \/ \E f \in IdsFrames : Receive(StreamsPacket(<<f>>), NoCallbacks)

SpecIds == InitStreams /\ [][NextIds]_vars

(***************************************************************************)
(* The connection specification: a connection from its construction on     *)
(* which the handshake completes, fails, or completes without the 1-RTT    *)
(* keys, while the peer sends control frames (MAX_DATA, MAX_STREAM_DATA,   *)
(* PADDING, ACK), frames the decoder rejects, empty STREAM frames of       *)
(* stream 0 and data of its first stream, in cleartext and 1-RTT packets;  *)
(* the packet allocator may fail and the host callbacks may fail.          *)
(***************************************************************************)
InitConn ==
    \/ StartFrom(quicly_connect(DefaultCtx, 1))
    \/ \E pp \in PeerParams :
           StartFrom(quicly_accept(DefaultCtx,
               Packet(QUICLY_PACKET_TYPE_CLIENT_INITIAL, TRUE, 0, 0, TRUE,
                      <<StreamFrame(0, 0, 1, FALSE)>>),
               Callbacks("noop", 0,
                         Tls(PTLS_ERROR_IN_PROGRESS, 1, <<pp>>, "ok"), 0)))

BadFrame == RFrame("BAD", 0, 0, 0, FALSE, 0, <<>>, <<>>)

\* outcomes of one ptls_handshake call: more input needed, failure,
\* handshake complete with both keys derived, and handshake complete with
\* ptls_export_secret or ptls_aead_new failing for the ingress or for the
\* egress key
ConnTls ==
    {Tls(PTLS_ERROR_IN_PROGRESS, 0, <<>>, "ok"),
     Tls(PTLS_ALERT_HANDSHAKE_FAILURE, 0, <<>>, "ok"),
     Tls(0, 0, <<[initial_max_stream_data |-> 1, initial_max_data_kb |-> 1]>>,
         "ok"),
     Tls(0, 0, <<>>, "fail_ingress"),
     Tls(0, 0, <<>>, "fail_egress")}

\* a MAX_DATA value above and one below the limits a handshake sets
MaxDataValues == {0, 17}

ConnPayloads ==
    {<<MaxStreamDataFrame(0, 8193)>>, <<MaxStreamDataFrame(0, 1)>>,
     <<MaxDataFrame(17), BadFrame>>,
     <<StreamFrame(0, streams[0].recvbuf.data_off, 0, FALSE)>>}
    \cup {<<MaxDataFrame(kb)>> : kb \in MaxDataValues}
    \cup {<<AckFrame(conn.packet_number - back, <<1>>, <<>>)>> :
             back \in {b \in {1} : conn.packet_number >= b}}

\* a cleartext packet of the peer, or a 1-RTT packet
ConnPackets ==
    {Packet(peer_cleartext_type(conn), TRUE, conn.connection_id, 1, TRUE,
            frames) : frames \in ConnPayloads}
    \cup {Packet(QUICLY_PACKET_TYPE_1RTT_KEY_PHASE_0, FALSE,
                 conn.connection_id, 1, TRUE, frames) :
             frames \in ConnPayloads}

\* data on the first stream of the peer followed by a MAX_DATA frame, with
\* on_stream_open and on_update succeeding or failing
ReceivePeerStream ==
    \E cb \in {Callbacks("consume", 0, NoTls, 0),
               Callbacks("consume", APP_ERROR, NoTls, 0),
               Callbacks("error", 0, NoTls, 0)} :
        Receive(Packet(QUICLY_PACKET_TYPE_1RTT_KEY_PHASE_0, FALSE,
                       conn.connection_id, 2, TRUE,
                       <<StreamFrame(first_peer_stream_id(conn), 0, 1,
                                     FALSE),
                         MaxDataFrame(18)>>), cb)

NextConn ==
    \/ \E alloc_fail \in 0..2 :
           Send(2, Callbacks("noop", 0, NoTls, alloc_fail))
    \/ ReceiveHandshakeWith(ConnTls)
    \/ \E p \in ConnPackets : Receive(p, NoCallbacks)
    \/ ReceivePeerStream

SpecConn == InitConn /\ [][NextConn]_vars

(***************************************************************************)
(* The packet-number specification: a connection from its construction     *)
(* that sends cleartext and 1-RTT packets in the same call, with the       *)
(* packet allocator failing at the first or the second packet of a call,   *)
(* while time passes and the peer completes the handshake, acknowledges    *)
(* and raises the connection limit.                                        *)
(***************************************************************************)
NextNumbers ==
    \/ \E alloc_fail \in 0..2 :
           Send(2, Callbacks("noop", 0, NoTls, alloc_fail))
    \/ ReceiveHandshakeWith({Tls(PTLS_ERROR_IN_PROGRESS, 1, <<>>, "ok"),
                             Tls(0, 1, <<>>, "ok")})
    \/ Receive(Packet(QUICLY_PACKET_TYPE_1RTT_KEY_PHASE_0, FALSE,
                      conn.connection_id, 1, TRUE, <<MaxDataFrame(17)>>),
               NoCallbacks)
    \/ ReceiveAck
    \/ Tick

SpecNumbers == InitConn /\ [][NextNumbers]_vars

(***************************************************************************)
(* The close specification: an established connection on which the host    *)
(* opens a stream, shuts down, closes and sends, while the peer sends data *)
(* on that stream with or without FIN, resets it, asks to stop sending and *)
(* acknowledges.  on_update consumes or closes.                            *)
(***************************************************************************)
CloseIds == {first_host_stream_id(conn)}

CloseFrames ==
    UNION {{StreamFrame(id, 0, 1, fin) : fin \in BOOLEAN}
           \cup {RstStreamFrame(id, 1, 1), StopSendingFrame(id)} : id \in CloseIds}

NextClose ==
    \/ OpenStreamUpTo(MaxStreams)
    \/ \E id \in CloseIds : Shutdown(id)
    \/ \E id \in CloseIds : CloseStream(id)
    \/ Send(1, NoCallbacks)
    \/ ReceiveAck
    \/ \E f \in CloseFrames, upd \in {"consume", "close"} :
           Receive(StreamsPacket(<<f>>), Callbacks(upd, 0, NoTls, 0))
    \/ Tick

SpecClose == InitStreams /\ [][NextClose]_vars

(***************************************************************************)
(* The size specification: a server with a small or the default            *)
(* max_packet_size, established, on which the host opens a stream, writes, *)
(* closes and sends, while the peer asks to stop sending and acknowledges. *)
(***************************************************************************)
PacketSizes == {56, 64, 1280}

InitSizes ==
    \E size \in PacketSizes, pp \in PeerParams :
        StartFrom(EstablishedServer(Ctx(size, 1, 8192, 16), pp))

NextSizes ==
    \/ OpenStreamUpTo(MaxStreams)
    \/ \E id \in CloseIds, n \in 1..MaxLen : Write(id, n)
    \/ \E id \in CloseIds : CloseStream(id)
    \/ \E n_in \in 1..2 : Send(n_in, NoCallbacks)
    \/ ReceiveAck
    \/ \E id \in CloseIds :
           Receive(StreamsPacket(<<StopSendingFrame(id)>>), NoCallbacks)

SpecSizes == InitSizes /\ [][NextSizes]_vars

(***************************************************************************)
(* The peer specification: an established connection on which the host     *)
(* opens a stream, writes, shuts down and sends, while the peer sends any   *)
(* one frame in a verified 1-RTT packet: frames for stream 0 and for the   *)
(* stream of the host, a frame the decoder rejects, and a type byte the    *)
(* switch of quicly_receive has no case for.                               *)
(***************************************************************************)
UnknownFrame == RFrame("UNKNOWN", 0, 0, 0, FALSE, 0, <<>>, <<>>)

PeerFrames ==
    {UnknownFrame, BadFrame, PaddingFrame}
    \cup UNION {{StopSendingFrame(id), MaxStreamDataFrame(id, MaxLen),
                 RstStreamFrame(id, 0, 1)} :
                    id \in {0, first_host_stream_id(conn)}}

NextPeer ==
    \/ OpenStreamUpTo(MaxStreams)
    \/ \E id \in CloseIds, n \in 1..MaxLen : Write(id, n)
    \/ \E id \in CloseIds : Shutdown(id)
    \/ Send(1, NoCallbacks)
    \/ \E f \in PeerFrames : Receive(StreamsPacket(<<f>>), NoCallbacks)

SpecPeer == InitStreams /\ [][NextPeer]_vars

(***************************************************************************)
(* The ack specification: an established connection on which the host      *)
(* opens a stream, writes, shuts down, closes and sends three packets,     *)
(* while the peer sends ACK frames of one or two blocks, of any length and *)
(* with any gap, starting at a packet number up to the next one the host   *)
(* will use, so that sent and unsent numbers are acknowledged.             *)
(***************************************************************************)
MaxBlock == 2
MaxAckPn == MaxPn + 1

\* blocks[1] is the block of the largest packet numbers, as in the frame
AckFrames ==
    {AckFrame(smallest, <<b>>, <<>>) :
         smallest \in 1..conn.packet_number, b \in 0..MaxBlock}
    \cup {AckFrame(smallest, <<b2, b1>>, <<gap>>) :
              smallest \in 1..conn.packet_number, b1 \in 0..1, b2 \in 0..1,
              gap \in 0..1}

NextAcks ==
    \/ OpenStreamUpTo(MaxStreams)
    \/ \E id \in CloseIds, n \in 1..MaxLen : Write(id, n)
    \/ \E id \in CloseIds : Shutdown(id)
    \/ \E id \in CloseIds : CloseStream(id)
    \/ SendBelow(MaxAckPn, 1, NoCallbacks)
    \/ \E f \in AckFrames : Receive(StreamsPacket(<<f>>), NoCallbacks)

SpecAcks == InitStreams /\ [][NextAcks]_vars

(***************************************************************************)
(* The update specification: an established connection on which the peer   *)
(* sends STREAM frames for its first stream, empty or not, with or without *)
(* FIN, in order, out of order and again.  on_update does nothing or       *)
(* consumes what has arrived.                                              *)
(***************************************************************************)
UpdateFrames ==
    {StreamFrame(first_peer_stream_id(conn), off, len, fin) :
         off \in 0..MaxLen, len \in 0..MaxLen, fin \in BOOLEAN}

NextUpdates ==
    \E f \in UpdateFrames, upd \in {"noop", "consume"} :
        /\ f.off + f.len <= MaxLen
        /\ Receive(StreamsPacket(<<f>>), Callbacks(upd, 0, NoTls, 0))

SpecUpdates == InitStreams /\ [][NextUpdates]_vars

(***************************************************************************)
(* The window specification: an established connection with the default    *)
(* parameters (initial_max_data_kb = 16) on which the peer sends its first *)
(* stream in blocks of WindowBlock bytes, MaxBlocks of them up to the      *)
(* limit of 16 KB, and the host consumes what has arrived or leaves it in  *)
(* the receive buffer.                                                     *)
(***************************************************************************)
WindowBlock == 8192
MaxBlocks == 2

WindowFrames ==
    {StreamFrame(first_peer_stream_id(conn), k * WindowBlock, WindowBlock,
                 FALSE) : k \in 0..(MaxBlocks - 1)}

NextWindow ==
    \/ \E n_in \in 1..2 : Send(n_in, NoCallbacks)
    \/ \E f \in WindowFrames, upd \in {"noop", "consume"} :
           Receive(StreamsPacket(<<f>>), Callbacks(upd, 0, NoTls, 0))

SpecWindow == InitStreams /\ [][NextWindow]_vars

(***************************************************************************)
(* The early-stream specification: a connection from its construction on   *)
(* which the host opens a stream and writes to it before, while or after   *)
(* the handshake completes with the transport parameters of the peer.      *)
(***************************************************************************)
NextEarly ==
    \/ OpenStreamUpTo(MaxStreams)
    \/ \E id \in CloseIds, n \in 1..MaxLen : Write(id, n)
    \/ \E n_in \in 1..2 : Send(n_in, NoCallbacks)
    \/ ReceiveHandshakeWith({Tls(PTLS_ERROR_IN_PROGRESS, 1, <<>>, "ok")}
            \cup {Tls(0, 1, <<pp>>, "ok") : pp \in PeerParams})
    \/ ReceiveAck

SpecEarly == InitConn /\ [][NextEarly]_vars

(***************************************************************************)
(* The echo specification: two established connections, the client (conn,  *)
(* streams) and the server (remote), and a network that reorders packets   *)
(* and drops up to MaxDrops of them.  The client opens a stream, writes    *)
(* and shuts down; its on_update consumes and closes at the EOS.  The      *)
(* on_update of the server writes back what it is given and closes at the  *)
(* EOS.  Both hosts call send, and receive for what the network delivers.  *)
(* The hosts and the packet codec are not part of lib/quicly.c.            *)
(***************************************************************************)
\* the transport parameters of DefaultCtx, which both ends announce
EchoParams == [initial_max_stream_data |-> 8192, initial_max_data_kb |-> 16]

Sides == {"client", "server"}

Endpoint(side) ==
    IF side = "client" THEN [c |-> conn, st |-> streams] ELSE remote

SetEndpoint(side, m) ==
    IF side = "client"
    THEN conn' = m.c /\ streams' = m.st /\ UNCHANGED remote
    ELSE remote' = [c |-> m.c, st |-> m.st] /\ UNCHANGED <<conn, streams>>

\* the direction of the packets side sends, and of those it is sent
Outgoing(side) == IF side = "client" THEN "up" ELSE "down"
Incoming(side) == IF side = "client" THEN "down" ELSE "up"

EchoCallbacks(side) ==
    Callbacks(IF side = "client" THEN "drain" ELSE "echo", 0, NoTls, 0)

\* An ACK frame for the packet numbers of S: the smallest number, the
\* lengths of the blocks from the highest block down, and the gaps between
\* them.
WireAck(S) ==
    LET r == RangesOf(S)
        k == Len(r)
    IN AckFrame(r[1][1],
                [j \in 1..k |-> r[k - j + 1][2] - r[k - j + 1][1]],
                [j \in 1..(k - 1) |-> r[k - j + 1][1] - r[k - j][2]])

\* the frame the decoder of the receiver makes of an encoded frame
WireFrame(f) ==
    CASE f.t = "STREAM" -> StreamFrame(f.id, f.off, f.len, f.fin)
      [] f.t = "ACK" -> WireAck(f.set)
      [] f.t = "RST_STREAM" -> RstStreamFrame(f.id, f.off, f.len)
      [] f.t = "STOP_SENDING" -> StopSendingFrame(f.id)
      [] f.t = "MAX_DATA" -> MaxDataFrame(f.off)
      [] f.t = "MAX_STREAM_DATA" -> MaxStreamDataFrame(f.id, f.off)

\* quicly_decode_packet of a packet commit_send_packet has finished: the
\* long header emit_long_header wrote, the frames, and the padding
WirePacket(c, pkt) ==
    Packet(pkt.type, TRUE, c.connection_id, pkt.packet_number, TRUE,
           [j \in 1..Len(pkt.frames) |-> WireFrame(pkt.frames[j])]
               \o (IF pkt.pad > 0 THEN <<PaddingFrame>> ELSE <<>>))

\* what a call of an echo host leaves in last
EchoCall(op, m) ==
    [NoCall EXCEPT !.op = op, !.ret = m.ret, !.abort = m.abort]

\* the stream id as the call m left it: in the map, or as destroy_stream
\* freed it; <<>> if the call has not seen it
StreamAfter(m, id) ==
    LET freed == {i \in DOMAIN m.destroyed : m.destroyed[i].stream_id = id}
    IN IF id \in DOMAIN m.st THEN <<m.st[id]>>
       ELSE IF freed = {} THEN <<>>
       ELSE <<m.destroyed[Max(freed)]>>

RecvBefore(st, id) ==
    IF id \in DOMAIN st THEN st[id].recvbuf ELSE quicly_recvbuf_init

\* what on_update has been delivered of stream id in the call m made on
\* the stream map st: the bytes it consumed, in the order of their offsets,
\* and the EOS at which it closed the stream
Consumed(st, m, id) ==
    LET before == RecvBefore(st, id)
        bytes(after) ==
            [i \in 1..(after.data_off - before.data_off) |->
                [byte |-> before.data_off + i - 1]]
        closed == id \in DOMAIN st /\ st[id].close_called
        eos(after) ==
            IF after.close_called /\ ~closed
            THEN <<[eos |-> after.recvbuf.eos]>>
            ELSE <<>>
        of(a) == IF a = <<>> THEN <<>>
                 ELSE bytes(a[1].recvbuf) \o eos(a[1])
    IN of(StreamAfter(m, id))

InitEcho ==
    LET start(client, server) ==
            /\ conn = client.c
            /\ streams = client.st
            /\ remote = [c |-> server.c, st |-> server.st]
    IN /\ start(EstablishedClient(DefaultCtx, EchoParams),
                EstablishedServer(DefaultCtx, EchoParams))
       /\ now = 0
       /\ last = NoCall
       /\ wire = NoWire
       /\ app = NoApp

\* the client host opens its stream
EchoOpen ==
    LET opened(m) ==
            /\ conn' = m.c
            /\ streams' = m.st
            /\ app' = [app EXCEPT !.id = m.found[1], !.idle = @ \ {"client"}]
            /\ last' = EchoCall("open_stream", m)
    IN /\ Alive
       /\ app.id = 0
       /\ opened(quicly_open_stream(
              Machine(conn, streams, NewSendContext(now, 0), NoCallbacks)))
       /\ UNCHANGED <<now, remote, wire>>

\* the client host writes n bytes
EchoWrite(n) ==
    /\ Alive
    /\ app.id # 0 /\ ~app.shut
    /\ app.written + n <= MaxLen
    /\ streams' = [streams EXCEPT ![app.id].sendbuf = quicly_sendbuf_write(@, n)]
    /\ app' = [app EXCEPT !.written = @ + n, !.idle = @ \ {"client"}]
    /\ last' = [NoCall EXCEPT !.op = "write"]
    /\ UNCHANGED <<conn, now, remote, wire>>

\* the client host shuts down the send side
EchoShutdown ==
    /\ Alive
    /\ app.id # 0 /\ ~app.shut
    /\ streams' = [streams EXCEPT ![app.id].sendbuf = quicly_sendbuf_shutdown(@)]
    /\ app' = [app EXCEPT !.shut = TRUE, !.idle = @ \ {"client"}]
    /\ last' = [NoCall EXCEPT !.op = "shutdown"]
    /\ UNCHANGED <<conn, now, remote, wire>>

\* a host has a reason to call quicly_send: something has happened at its
\* end since its last call found nothing to send
SendReady(side) ==
    /\ Alive
    /\ side \notin app.idle

\* a host calls quicly_send with room for one packet and hands the packet
\* to the network
EchoSend(side) ==
    LET sent(m) ==
            /\ SetEndpoint(side, m)
            /\ wire' = [wire EXCEPT ![Outgoing(side)] = @ \cup
                           {WirePacket(m.c, m.s.packets[i]) :
                               i \in DOMAIN m.s.packets}]
            /\ app' = [app EXCEPT !.idle = IF m.s.packets = <<>> THEN @ \cup {side}
                                            ELSE @ \ {side}]
            /\ last' = EchoCall("send", m)
        call(e) ==
            sent(quicly_send(
                   Machine(e.c, e.st, NewSendContext(now, 1), NoCallbacks)))
    IN /\ SendReady(side)
       /\ call(Endpoint(side))
       /\ UNCHANGED now

\* the network delivers the packet p to side, whose host calls
\* quicly_receive
EchoDeliver(side, p) ==
    LET received(e, m) ==
            /\ SetEndpoint(side, m)
            /\ app' = [app EXCEPT ![side] = @ \o Consumed(e.st, m, app.id),
                                 !.idle = @ \ {side}]
            /\ last' = EchoCall("receive", m)
        call(e) ==
            received(e, quicly_receive(
                Machine(e.c, e.st, NewSendContext(now, 0),
                        EchoCallbacks(side)), p))
    IN /\ Alive
       /\ p \in wire[Incoming(side)]
       /\ call(Endpoint(side))
       /\ wire' = [wire EXCEPT ![Incoming(side)] = @ \ {p}]
       /\ UNCHANGED now

\* the network drops a packet; it does so only while a timeout is still to
\* come
EchoDrop(side, p) ==
    /\ Alive
    /\ wire.dropped < MaxDrops
    /\ now < MaxTime
    /\ p \in wire[Incoming(side)]
    /\ wire' = [wire EXCEPT ![Incoming(side)] = @ \ {p}, !.dropped = @ + 1]
    /\ last' = [NoCall EXCEPT !.op = "drop"]
    /\ UNCHANGED <<conn, streams, now, remote, app>>

\* time passes at both ends, once nothing is in flight and neither host has
\* anything to send: a timeout is longer than an exchange of packets
EchoTick ==
    /\ Alive
    /\ now < MaxTime
    /\ wire.up = {} /\ wire.down = {}
    /\ app.idle = Sides
    /\ app' = [app EXCEPT !.idle = {}]
    /\ now' = now + 1
    /\ last' = [NoCall EXCEPT !.op = "tick"]
    /\ UNCHANGED <<conn, streams, remote, wire>>

Delivery(side) == \E p \in wire[Incoming(side)] : EchoDeliver(side, p)

\* the network holds a packet for side
DeliveryReady(side) == Alive /\ wire[Incoming(side)] # {}

NextEcho ==
    \/ EchoOpen
    \/ \E n \in 1..MaxLen : EchoWrite(n)
    \/ EchoShutdown
    \/ EchoSend("client")
    \/ EchoSend("server")
    \/ Delivery("client")
    \/ Delivery("server")
    \/ \E side \in Sides : \E p \in wire[Incoming(side)] : EchoDrop(side, p)
    \/ EchoTick

SpecEcho == InitEcho /\ [][NextEcho]_vars

\* the hosts keep calling send and receive, the network keeps delivering
\* and time keeps passing: weak fairness of EchoSend, Delivery and EchoTick.
\* For EchoSend and Delivery it is written out, with the guard of the
\* action (SendReady, DeliveryReady) as its enabling condition: a step of
\* the action is possible, and changes the state, exactly when its guard
\* holds
FairEcho ==
    /\ SpecEcho
    /\ \A side \in Sides :
           []<>(~SendReady(side)) \/ []<><<EchoSend(side)>>_vars
    /\ \A side \in Sides :
           []<>(~DeliveryReady(side)) \/ []<><<Delivery(side)>>_vars
    /\ WF_vars(EchoTick)

(***************************************************************************)
(* Properties.                                                             *)
(***************************************************************************)
\* the bytes of stream id that an outstanding ack-book entry carries
InFlight(id) ==
    UNION {Interval(conn.acks[i].start, conn.acks[i].end) :
              i \in {j \in DOMAIN conn.acks :
                        /\ conn.acks[j].kind = "stream"
                        /\ conn.acks[j].stream_id = id}}

HasEos(stream) == stream.sendbuf.eos # UINT64_MAX

\* C1: in every reachable state egress.max_data.sent <= egress.max_data
\* .permitted, and the assertion of send_stream_frame (sent + delta <=
\* permitted) never fails.
C1_SentWithinPermitted ==
    /\ conn.sent <= conn.permitted
    /\ last.abort # "send_stream_frame:1141"

\* C2: for every stream, max_sent <= max_stream_data + 1 when the send side
\* has an EOS, and max_sent <= max_stream_data when it has none.
C2_MaxSentWithinStreamLimit ==
    \A id \in DOMAIN streams :
        streams[id].max_sent
            <= streams[id].max_stream_data
                   + (IF HasEos(streams[id]) THEN 1 ELSE 0)

\* a stream has sent up to its EOS, one byte beyond its window
C2_Witness ==
    \E id \in DOMAIN streams :
        /\ HasEos(streams[id])
        /\ streams[id].max_sent = streams[id].max_stream_data + 1
        /\ last.op = "send"

\* C5: a send call made at time now leaves no ack-book entry older than
\* now - initial_rto, and every stream byte such an entry carried is pending
\* again or is carried by an entry this send call made.
C5_Step ==
    (last'.op = "send" /\ last'.abort = "none") =>
        LET sent_before == now - conn.ctx.initial_rto
        IN /\ \A i \in DOMAIN conn'.acks :
                  ~(conn'.acks[i].sent_at < sent_before)
           /\ \A i \in DOMAIN conn.acks :
                  LET e == conn.acks[i]
                  IN (/\ e.sent_at < sent_before
                      /\ e.kind = "stream"
                      /\ e.stream_id \in DOMAIN streams')
                     => \A x \in Interval(e.start, e.end) :
                            \/ x \in streams'[e.stream_id].sendbuf.pending
                            \/ \E j \in DOMAIN conn'.acks :
                                   /\ conn'.acks[j].kind = "stream"
                                   /\ conn'.acks[j].stream_id = e.stream_id
                                   /\ conn'.acks[j].sent_at = now
                                   /\ x \in Interval(conn'.acks[j].start,
                                                     conn'.acks[j].end)
Conserved(id) ==
    \A x \in Interval(0, streams[id].sendbuf.len) :
        LET p == x \in streams[id].sendbuf.pending
            f == x \in InFlight(id)
            a == x \in streams[id].sendbuf.acked
        IN /\ p \/ f \/ a
           /\ ~(p /\ f) /\ ~(p /\ a) /\ ~(f /\ a)
C6_SendBufferConservation ==
    last.abort = "none" => \A id \in DOMAIN streams : Conserved(id)

\* the one frame of the packet the last call received
LastFrame == last.arg[1].frames[1]
OneFrameReceived(type) ==
    /\ last'.op = "receive"
    /\ Len(last'.arg[1].frames) = 1
    /\ last'.arg[1].frames[1].t = type
    /\ last'.nframes = 1

\* C3: receive ignores a packet whose connection id differs from the stored
\* one: it returns packet-ignored, reads no frame and leaves the ack queue
\* as it was.
C3_Step ==
    (last'.op = "receive"
        /\ last'.arg[1].connection_id # conn.connection_id)
    => /\ last'.ret = QUICLY_ERROR_PACKET_IGNORED
       /\ last'.nframes = 0
       /\ conn'.ack_queue = conn.ack_queue
C3_IgnoresOtherConnectionId == [][C3_Step]_vars

\* C4: a verified packet whose frames are only PADDING and ACK frames does
\* not enter the ack queue and does not set acks_require_encryption.
C4_Step ==
    (/\ last'.op = "receive"
     /\ last'.ret = 0
     /\ last'.nframes = Len(last'.arg[1].frames)
     /\ \A i \in DOMAIN last'.arg[1].frames :
            last'.arg[1].frames[i].t \in {"PADDING", "ACK"})
    => /\ conn'.ack_queue = conn.ack_queue
       /\ conn'.acks_require_encryption = conn.acks_require_encryption
C4_PaddingSchedulesNoAck == [][C4_Step]_vars

\* C7: a stream the host opens has the parity of the host (client odd,
\* server even), a non-zero id that is not in use, and the next id is two
\* above it (or none is left); a stream opened for the peer by a received
\* frame has the other parity and a non-zero id.
HostParity == IF conn.role = "client" THEN 1 ELSE 0
C7_Step ==
    /\ (last'.op = "open_stream" /\ last'.ret = 0)
       => LET id == last'.arg[1]
          IN /\ id % 2 = HostParity
             /\ id # 0
             /\ id \notin DOMAIN streams
             /\ id \in DOMAIN streams'
             /\ conn'.host_next_stream_id \in {id + 2, 0}
    /\ \A i \in DOMAIN last'.opened :
           /\ last'.opened[i] % 2 # HostParity
           /\ last'.opened[i] # 0
C7_StreamIdParity == [][C7_Step]_vars

\* C8: a send call of a client in state before_server_hello, with room for
\* at least one packet and the ClientHello to send, either outputs exactly
\* one CLIENT_INITIAL packet of 1272 bytes before the tag that carries the
\* whole ClientHello, or returns handshake-too-large.
WholeHello(pkt, hello_len) ==
    \E i \in DOMAIN pkt.frames :
        /\ pkt.frames[i].t = "STREAM"
        /\ pkt.frames[i].id = 0
        /\ pkt.frames[i].off = 0
        /\ pkt.frames[i].len = hello_len
C8_Step ==
    (/\ last'.op = "send"
     /\ last'.arg[1] >= 1
     /\ conn.role = "client"
     /\ conn.state = QUICLY_STATE_BEFORE_SH
     /\ streams[0].sendbuf.pending = Interval(0, streams[0].sendbuf.len))
    => \/ last'.ret = QUICLY_ERROR_HANDSHAKE_TOO_LARGE
       \/ /\ last'.ret = 0
          /\ last'.abort = "none"
          /\ Len(last'.packets) = 1
          /\ last'.packets[1].type = QUICLY_PACKET_TYPE_CLIENT_INITIAL
          /\ last'.packets[1].len - FNV1A_TAG_SIZE = CLIENT_INITIAL_MAX_SIZE
          /\ WholeHello(last'.packets[1], streams[0].sendbuf.len)
C8_ClientInitial == [][C8_Step]_vars

\* C9: the first RST_STREAM of a stream without a receive EOS.  With a
\* final offset at or above the highest received offset, on_update is
\* invoked once and the stream, while it exists, has the final offset as
\* its EOS and the reason of the frame; with a final offset below the
\* highest received offset, receive fails, on_update is not invoked and
\* the EOS and the reason stay as they were.
RecvBufBefore(id) ==
    IF id \in DOMAIN streams THEN streams[id].recvbuf ELSE quicly_recvbuf_init
UpdatesOf(id) == Cardinality({i \in DOMAIN last'.upd : last'.upd[i] = id})
C9_Step ==
    (OneFrameReceived("RST_STREAM")
        /\ RecvBufBefore(last'.arg[1].frames[1].id).eos = UINT64_MAX
        /\ \/ last'.arg[1].frames[1].id \in DOMAIN streams
           \/ last'.opened # <<>>)
    => LET f == last'.arg[1].frames[1]
           buf == RecvBufBefore(f.id)
       IN IF f.off >= LastEnd(buf.received)
          THEN /\ UpdatesOf(f.id) = 1
               /\ (last'.abort = "none" /\ f.id \in DOMAIN streams')
                  => /\ streams'[f.id].recvbuf.eos = f.off
                     /\ streams'[f.id].rst_reason = f.reason
          ELSE /\ last'.ret # 0
               /\ UpdatesOf(f.id) = 0
               /\ streams'[f.id].recvbuf.eos = UINT64_MAX
               /\ streams'[f.id].rst_reason = streams[f.id].rst_reason
C9_FirstRstStream == [][C9_Step]_vars

\* a first RST_STREAM above the highest received offset has been accepted
C9_Witness ==
    /\ last.op = "receive"
    /\ LastFrame.t = "RST_STREAM"
    /\ last.ret = 0
    /\ last.upd = <<LastFrame.id>>
    /\ LastFrame.id \in DOMAIN streams
    /\ streams[LastFrame.id].recvbuf.received # {}
    /\ streams[LastFrame.id].recvbuf.eos = LastFrame.off
    /\ LastFrame.off > LastEnd(streams[LastFrame.id].recvbuf.received)
    /\ streams[LastFrame.id].rst_reason = LastFrame.reason

\* C10: once the final offset E of a stream is established, a RST_STREAM
\* with final offset F succeeds if and only if F = E, and a RST_STREAM with
\* F = E leaves the stream as it was.
C10_Step ==
    (OneFrameReceived("RST_STREAM")
        /\ last'.arg[1].frames[1].id \in DOMAIN streams
        /\ streams[last'.arg[1].frames[1].id].recvbuf.eos # UINT64_MAX)
    => LET f == last'.arg[1].frames[1]
       IN /\ (last'.ret = 0) <=> (f.off = streams[f.id].recvbuf.eos)
          /\ (f.off = streams[f.id].recvbuf.eos /\ f.id \in DOMAIN streams')
             => streams'[f.id] = streams[f.id]
C10_LaterRstStream == [][C10_Step]_vars

\* the data bytes of stream id that the STREAM frames of packets carry
StreamBytesIn(packets, id) ==
    UNION {UNION {IF packets[i].frames[j].t = "STREAM"
                     /\ packets[i].frames[j].id = id
                  THEN Interval(packets[i].frames[j].off,
                                packets[i].frames[j].off
                                    + packets[i].frames[j].len)
                  ELSE {} : j \in DOMAIN packets[i].frames} :
              i \in DOMAIN packets}

\* the bytes of stream id that the entries a call has declared lost carry
LostBytesIn(settled, id) ==
    UNION {IF ~settled[i].acked /\ settled[i].entry.kind = "stream"
              /\ settled[i].entry.stream_id = id
           THEN Interval(settled[i].entry.start, settled[i].entry.end)
           ELSE {} : i \in DOMAIN settled}

\* C12: a send call with a packet slot for a 1-RTT packet and enough
\* connection credit emits,
\* of a stream that is not reset, exactly the written bytes that are pending
\* (or declared lost by the call) below the stream's max_stream_data, and
\* leaves the written bytes at or above the limit pending; so a stream with
\* more written bytes than its limit L stalls at L and resumes from L once
\* MAX_STREAM_DATA has raised the limit.
C12_Step ==
    \A id \in (DOMAIN streams) \ {0} :
        (/\ last'.op = "send"
         /\ last'.abort = "none"
         /\ last'.ret = 0
         /\ last'.arg[1] >= 1
         /\ \A i \in DOMAIN last'.packets : last'.packets[i].aead
         /\ id \in DOMAIN streams'
         /\ streams[id].rst.sender_state = "none"
         /\ conn.permitted - conn.sent >= streams[id].sendbuf.len)
        => LET L == streams[id].max_stream_data
               written == Interval(0, streams[id].sendbuf.len)
               due == (streams[id].sendbuf.pending
                           \cup LostBytesIn(last'.settled, id)) \cap written
           IN /\ StreamBytesIn(last'.packets, id) = due \cap Interval(0, L)
              /\ streams'[id].sendbuf.pending \cap written
                     = due \ Interval(0, L)
C12_FlowControlStallAndResume == [][C12_Step]_vars

\* the stream entries a call has declared lost whose packet number had been
\* used by an output packet before the call
LostEntries(settled, packet_number) ==
    {settled[i].entry : i \in {j \in DOMAIN settled :
                                  /\ ~settled[j].acked
                                  /\ settled[j].entry.kind = "stream"
                                  /\ settled[j].entry.packet_number
                                         < packet_number}}

\* whether packet pkt carries a byte of the stream entry e
Carries(pkt, e) ==
    Interval(e.start, e.end) \cap StreamBytesIn(<<pkt>>, e.stream_id) # {}

\* C13: egress.packet_number never decreases; the packets a send call
\* outputs (whether it succeeds or fails) carry strictly increasing numbers
\* that start at or above the number the connection had before the call and
\* end below the number it has after it, so no number is output twice; and
\* a byte of a stream entry the call declares lost is carried, at its
\* offset, only by output packets with a number greater than the entry's,
\* and after a successful call it is pending or carried by such a packet.
C13_Step ==
    /\ conn'.packet_number >= conn.packet_number
    /\ last'.op = "send" =>
          /\ \A i \in DOMAIN last'.packets :
                 /\ last'.packets[i].packet_number >= conn.packet_number
                 /\ last'.packets[i].packet_number < conn'.packet_number
                 /\ \A j \in DOMAIN last'.packets :
                        i < j => last'.packets[i].packet_number
                                     < last'.packets[j].packet_number
          /\ last'.abort = "none" =>
                \A e \in LostEntries(last'.settled, conn.packet_number) :
                    /\ \A i \in DOMAIN last'.packets :
                           Carries(last'.packets[i], e)
                               => last'.packets[i].packet_number
                                      > e.packet_number
                    /\ (last'.ret = 0 /\ e.stream_id \in DOMAIN streams')
                       => (Interval(e.start, e.end)
                             \cap Interval(0, streams'[e.stream_id].sendbuf.len))
                          \subseteq
                              (streams'[e.stream_id].sendbuf.pending
                                 \cup StreamBytesIn(last'.packets, e.stream_id))
C14_Step ==
    /\ conn'.permitted >= conn.permitted
    /\ \A id \in DOMAIN streams \cap DOMAIN streams' :
         streams'[id].max_stream_data >= streams[id].max_stream_data

C14_LimitsNeverDecrease == [][C14_Step]_vars

\* The part of C14 that the handlers of the two frames keep: a step in which
\* ptls_handshake is not called lowers no limit.
C14_FramesStep ==
    last'.tls_calls = 0 => C14_Step

C14_FramesNeverLower == [][C14_FramesStep]_vars


\* the streams that a step removes from the stream map
Removed == (DOMAIN streams) \ (DOMAIN streams')

\* the send side of stream is fully acknowledged: a shutdown has set the
\* end, and every offset up to the end, the end itself included, is acked
SendSideAcked(stream) ==
    /\ stream.sendbuf.eos # UINT64_MAX
    /\ Interval(0, stream.sendbuf.eos + 1) \subseteq stream.sendbuf.acked

\* the receive side of stream has reached the end of the stream: the end is
\* known and everything below it has arrived
RecvSideComplete(stream) ==
    /\ stream.recvbuf.eos # UINT64_MAX
    /\ Interval(0, stream.recvbuf.eos) \subseteq stream.recvbuf.received

\* C15: while the connection is alive a stream leaves the stream map only by
\* destroy_stream, and in the state in which it is destroyed close_called is
\* true, its send side is fully acked or its RST_STREAM sender state is
\* acked, and its receive side has reached the end of the stream.  In every
\* other step the stream map keeps all its streams.
C15_Step ==
    /\ \A id \in Removed :
         \E i \in DOMAIN last'.destroyed : last'.destroyed[i].stream_id = id
    /\ \A i \in DOMAIN last'.destroyed :
         LET stream == last'.destroyed[i]
         IN /\ stream.stream_id \in Removed
            /\ stream.close_called
            /\ SendSideAcked(stream) \/ stream.rst.sender_state = "acked"
            /\ RecvSideComplete(stream)
    /\ last'.op \notin {"close_stream", "send", "receive"} => Removed = {}

C15_StreamRemoval == [][C15_Step]_vars

\* a receive call destroys a stream whose RST_STREAM frame has been
\* acknowledged and whose send side was never fully acknowledged
C15_Witness ==
    /\ last.op = "receive"
    /\ \E i \in DOMAIN last.destroyed :
         /\ last.destroyed[i].rst.sender_state = "acked"
         /\ ~SendSideAcked(last.destroyed[i])
         /\ last.destroyed[i].stream_id \notin DOMAIN streams


\* the connection state never decreases, and the 1-RTT state is never left
StateMovesForward ==
    /\ conn'.state >= conn.state
    /\ conn.state = QUICLY_STATE_1RTT_ENCRYPTED
           => conn'.state = QUICLY_STATE_1RTT_ENCRYPTED

\* C16: the connection state only moves forward along before_server_hello,
\* before_server_finished, one_rtt_encrypted: no step decreases it, the
\* 1-RTT state is never left, and a step enters before_server_finished only
\* from before_server_hello and only in a receive call in which
\* ptls_handshake was called and reported in-progress.
C16_Step ==
    /\ StateMovesForward
    /\ (conn'.state = QUICLY_STATE_BEFORE_SF /\ conn.state # QUICLY_STATE_BEFORE_SF)
           => /\ conn.state = QUICLY_STATE_BEFORE_SH
              /\ last'.op = "receive"
              /\ last'.tls_calls >= 1

C16_StateOnlyForward == [][C16_Step]_vars

\* The part of C16 that holds: the state never decreases and the 1-RTT
\* state is never left.
C16_NeverBackward == [][StateMovesForward]_vars


\* both 1-RTT keys of c are installed
KeysInstalled(c) == c.ingress_key /\ c.egress_key

\* C17: when ptls_handshake returns success in a receive call of a
\* connection not yet in the 1-RTT state, the call either ends in the 1-RTT
\* state with both 1-RTT keys installed and egress.max_data.permitted equal
\* to the peer's initial_max_data_kb * 1024, or returns a non-zero error: it
\* never returns 0 with the connection in an earlier state.
C17_Step ==
    (/\ last'.op = "receive"
     /\ last'.abort = "none"
     /\ last'.tls_ok
     /\ conn.state < QUICLY_STATE_1RTT_ENCRYPTED)
    => \/ /\ conn'.state = QUICLY_STATE_1RTT_ENCRYPTED
          /\ KeysInstalled(conn')
          /\ conn'.permitted = conn'.peer_tp.initial_max_data_kb * 1024
       \/ last'.ret # 0

C17_HandshakeSuccess == [][C17_Step]_vars

\* The consequence C17 draws, which holds: in the 1-RTT state both keys are
\* installed.
C17_KeysIn1Rtt ==
    conn.state = QUICLY_STATE_1RTT_ENCRYPTED => KeysInstalled(conn)


\* the packets among packets that carry an ACK frame
AckPackets(packets) ==
    {i \in DOMAIN packets :
        \E j \in DOMAIN packets[i].frames : packets[i].frames[j].t = "ACK"}

\* C18: egress.acks_require_encryption, once true, stays true in every step;
\* and a send call made while it is true puts no ACK frame into a cleartext
\* packet: every packet of the call that carries an ACK frame is a 1-RTT
\* protected packet.
C18_Step ==
    /\ conn.acks_require_encryption => conn'.acks_require_encryption
    /\ (last'.op = "send" /\ conn.acks_require_encryption)
           => \A i \in AckPackets(last'.packets) : last'.packets[i].aead

C18_AcksRequireEncryption == [][C18_Step]_vars

\* a send call made with the flag true has output a cleartext packet and a
\* 1-RTT packet, the acknowledgement in the 1-RTT packet
C18_Witness ==
    /\ last.op = "send"
    /\ last.ret = 0
    /\ conn.acks_require_encryption
    /\ AckPackets(last.packets) # {}
    /\ \E i \in DOMAIN last.packets : ~last.packets[i].aead
    /\ \A i \in AckPackets(last.packets) : last.packets[i].aead


\* the streams of the map st, stream 0 aside, that the host of c (host =
\* TRUE) or its peer has opened
StreamsOf(c, st, host) ==
    {id \in (DOMAIN st) \ {0} :
        (id % 2 = (IF c.role = "client" THEN 1 ELSE 0)) = host}

\* The stream map is intact: it holds stream 0, the two stream counters
\* count the streams in the map, and every stream of the peer in the map is
\* one the id counter of the peer has passed (an opened stream).
StreamMapIntact(c, st) ==
    /\ 0 \in DOMAIN st
    /\ c.host_num_streams = Cardinality(StreamsOf(c, st, TRUE))
    /\ c.peer_num_streams = Cardinality(StreamsOf(c, st, FALSE))
    /\ \A id \in StreamsOf(c, st, FALSE) :
         c.peer_next_stream_id = 0 \/ id < c.peer_next_stream_id

\* the frames of the packet of the last receive call that were not reached
FramesNotReached ==
    {last'.arg[1].frames[j] :
        j \in (last'.nframes + 1)..Len(last'.arg[1].frames)}

\* a receive call has returned an error for a frame of its packet
FrameError ==
    /\ last'.op = "receive"
    /\ last'.abort = "none"
    /\ last'.ret # 0
    /\ last'.nframes >= 1

\* The part of C19 about the packet: processing stops at the failing frame
\* (a MAX_DATA frame behind it does not raise the limit), the number of the
\* packet does not enter ingress.ack_queue and acks_require_encryption keeps
\* its value.
PacketDropped ==
    /\ \A f \in FramesNotReached :
         f.t = "MAX_DATA" => conn'.permitted # f.off * 1024
    /\ conn'.ack_queue = conn.ack_queue
    /\ conn'.acks_require_encryption = conn.acks_require_encryption

\* C19: if receive returns an error for a frame of a packet, processing of
\* the packet stops at that frame, the number of the packet is not added to
\* ingress.ack_queue, acks_require_encryption is not changed, and the
\* connection and its stream map stay intact: a stream map that was intact
\* before the call is intact after it.
C19_Step ==
    FrameError
    => /\ PacketDropped
       /\ StreamMapIntact(conn, streams) => StreamMapIntact(conn', streams')

C19_ReceiveErrorLeavesConnection == [][C19_Step]_vars

\* The part of C19 that holds: the packet is dropped at the failing frame.
C19_PacketDropped == [][FrameError => PacketDropped]_vars


\* C20: the role of a connection is fixed at construction: in every
\* reachable state, after any number of open_stream calls with stream ids
\* of IdBits bits that wrap, quicly_is_client returns what it returned at
\* construction (true for the connection quicly_connect made, false for the
\* one quicly_accept made).
C20_RoleFixed ==
    quicly_is_client(conn) <=> conn.role = "client"

\* The part of C20 that holds: the answer is the one of construction as long
\* as the host has stream ids left.
C20_RoleFixedWhileIdsLeft ==
    conn.host_next_stream_id # 0 => C20_RoleFixed


\* what a host is delivered of a stream on which n bytes were written and
\* the send side shut down: the bytes in order, then the EOS at n
Expected(n) == [i \in 1..n |-> [byte |-> i - 1]] \o <<[eos |-> n]>>

IsPrefix(s, t) == Len(s) <= Len(t) /\ SubSeq(t, 1, Len(s)) = s

\* what the client has written so far, with the EOS once it has shut down
Written ==
    IF app.shut THEN Expected(app.written)
    ELSE SubSeq(Expected(app.written), 1, app.written)

\* both hosts have been delivered, in order, without gap or duplicate, part
\* of what the client has written
EchoInOrder ==
    /\ IsPrefix(app.server, Written)
    /\ IsPrefix(app.client, app.server)

\* both hosts have been delivered everything, the EOS at the written
\* length, and the stream has left both stream maps
EchoDone ==
    /\ app.server = Expected(app.written)
    /\ app.client = Expected(app.written)
    /\ app.id \notin DOMAIN streams
    /\ app.id \notin DOMAIN remote.st

\* C11: with a network that reorders and drops packets but delivers the
\* retransmissions, and hosts that keep calling send and receive, once the
\* client has shut down the stream it opened and wrote to, eventually the
\* on_update of the server has been delivered every byte written, in
\* order, without gap or duplicate, and the EOS at the written length, the
\* on_update of the client has been delivered the same as the echo of the
\* server, and the stream has left both stream maps.
C11_EchoDelivery == app.shut ~> EchoDone

\* what the hosts are delivered is always in order, without gap or
\* duplicate, and no call fails
C11_InOrder == EchoInOrder /\ last.abort = "none" /\ last.ret = 0

\* C21: every packet a send call outputs is, with its header, frames,
\* padding and tag, at most ctx.max_packet_size long, and no frame is
\* written past the end prepare_packet left for the frames of the packet.
C21_PacketsFit ==
    last.op = "send" =>
        /\ last.abort # "packet-overrun"
        /\ \A i \in DOMAIN last.packets :
               last.packets[i].len <= conn.ctx.max_packet_size

\* C22: a STOP_SENDING frame received for a stream of the map arms the RST
\* sender of the stream: receive returns normally, the stream is still in
\* the map and its rst.sender_state is send.
StopSendingFor(id) ==
    /\ OneFrameReceived("STOP_SENDING")
    /\ LastFrame'.id = id
Armed(id) ==
    /\ last'.abort = "none"
    /\ last'.ret = 0
    /\ id \in DOMAIN streams'
    /\ streams'[id].rst.sender_state = "send"
C22_Step == \A id \in DOMAIN streams : StopSendingFor(id) => Armed(id)
C22_StopSendingArms == [][C22_Step]_vars

\* C22, as the code has it: a STOP_SENDING frame received for a stream
\* other than stream 0 arms the RST sender unless everything up to the end
\* of the stream has been sent (max_sent = sendbuf.eos), in which case the
\* stream is left as it was; and a send call with room for a packet emits
\* an RST_STREAM frame for every stream whose RST sender is armed.
RstStreamSent(id) ==
    \E i \in DOMAIN last'.packets :
        \E j \in DOMAIN last'.packets[i].frames :
            /\ last'.packets[i].frames[j].t = "RST_STREAM"
            /\ last'.packets[i].frames[j].id = id
C22_CodeStep ==
    \A id \in (DOMAIN streams) \ {0} :
        /\ StopSendingFor(id) =>
               IF streams[id].max_sent = streams[id].sendbuf.eos
               THEN /\ last'.abort = "none" /\ last'.ret = 0
                    /\ streams'[id] = streams[id]
               ELSE Armed(id)
        /\ (/\ streams[id].rst.sender_state = "send"
            /\ last'.op = "send"
            /\ last'.arg[1] >= 1) =>
               /\ last'.abort = "none"
               /\ last'.ret = 0
               /\ RstStreamSent(id)
               /\ id \in DOMAIN streams'
               /\ streams'[id].rst.sender_state = "unacked"
C22_ArmsUnlessAllSent == [][C22_CodeStep]_vars

\* C30: nothing the peer puts into a packet makes receive fail an
\* assertion; a verified packet with a frame type byte the core does not
\* handle makes receive return invalid-frame-data.
C30_NoAssertionOnReceive ==
    last.op = "receive" =>
        /\ last.abort = "none"
        /\ (/\ Len(last.arg[1].frames) = 1
            /\ LastFrame.t = "UNKNOWN") =>
               last.ret = QUICLY_ERROR_INVALID_FRAME_DATA

\* C23: every entry of the ack book is settled at most once.  In every
\* step the callbacks are invoked for entries of the book, for each at
\* most once, with acked = TRUE by receive and with acked = FALSE by send,
\* and every entry whose callback was invoked has left the book; the
\* entries that stay keep their order; and an entry that enters the book
\* carries a packet number no earlier entry has, so that a settled entry
\* never comes back.
Entries(book) == {book[i] : i \in DOMAIN book}
SettledEntries == {last'.settled[i].entry : i \in DOMAIN last'.settled}
Distinct(seq) == \A i, j \in DOMAIN seq : seq[i] = seq[j] => i = j
C23_Step ==
    LET stays(e) == e \in Entries(conn.acks) \ SettledEntries
        old(e) == e \in Entries(conn.acks)
    IN /\ Distinct(conn.acks)
       /\ Distinct(last'.settled)
       /\ SettledEntries \subseteq Entries(conn.acks)
       /\ SettledEntries \cap Entries(conn'.acks) = {}
       /\ \A i \in DOMAIN last'.settled :
              last'.settled[i].acked = (last'.op = "receive")
       /\ SelectSeq(conn'.acks, old) = SelectSeq(conn.acks, stays)
       /\ \A e \in Entries(conn.acks) : e.packet_number < conn.packet_number
       /\ \A e \in Entries(conn'.acks) \ Entries(conn.acks) :
              e.packet_number >= conn.packet_number
RECURSIVE BlockStart(_, _)
BlockStart(f, k) ==
    IF k = Len(f.blocks) THEN f.off
    ELSE BlockStart(f, k + 1) + f.blocks[k + 1] + f.gaps[k]
AckedNumbers(f) ==
    UNION {BlockStart(f, k)..(BlockStart(f, k) + f.blocks[k] - 1) :
               k \in DOMAIN f.blocks}
C24_Step ==
    LET acked(e) == e.packet_number \in AckedNumbers(LastFrame')
        other(e) == e.packet_number \notin AckedNumbers(LastFrame')
        gone == SelectSeq(conn.acks, acked)
    IN OneFrameReceived("ACK") =>
           /\ last'.abort = "none"
           /\ last'.ret = 0
           /\ conn'.acks = SelectSeq(conn.acks, other)
           /\ last'.settled =
                  [i \in DOMAIN gone |-> [entry |-> gone[i], acked |-> TRUE]]
C25_Step ==
    (last'.op = "send" /\ last'.abort = "none" /\ last'.ret = 0) =>
        \A e \in Entries(conn.acks) :
            IF e.sent_at < now - conn.ctx.initial_rto
            THEN [entry |-> e, acked |-> FALSE]
                     \in {last'.settled[i] : i \in DOMAIN last'.settled}
            ELSE e \in Entries(conn'.acks) /\ e \notin SettledEntries
C25_LostAfterRto == [][C25_Step]_vars

\* C26: send drops no pending acknowledgement.  Every packet number that
\* is in ingress.ack_queue when a send call starts is, when the call
\* returns, in an ACK frame of a packet the call has output or still in
\* ingress.ack_queue.
AckedIn(packet) ==
    UNION {packet.frames[j].set :
               j \in {k \in DOMAIN packet.frames : packet.frames[k].t = "ACK"}}
AckedBySend == UNION {AckedIn(last'.packets[i]) : i \in DOMAIN last'.packets}
C26_Step ==
    (last'.op = "send" /\ last'.abort = "none") =>
        conn.ack_queue \subseteq (AckedBySend \cup conn'.ack_queue)
C26_NoAckDropped == [][C26_Step]_vars

\* C27: a STREAM or RST_STREAM frame for a stream id N that is not in the
\* map.  If N has the parity of the peer and N >= peer.next_stream_id, the
\* ids peer.next_stream_id, peer.next_stream_id + 2, ..., N are opened,
\* on_stream_open is invoked once for each in increasing order,
\* peer.num_streams grows by their number and peer.next_stream_id becomes
\* N + 2.  If N has the parity of the peer and N < peer.next_stream_id, or
\* N has the parity of the host and was never opened, no stream is created
\* and no callback is invoked.
IdsUpTo(first, N) == [i \in 1..((N - first) \div 2 + 1) |-> first + 2 * (i - 1)]
StreamFrameFor(N) ==
    /\ \/ OneFrameReceived("STREAM")
       \/ OneFrameReceived("RST_STREAM")
    /\ LastFrame'.id = N
NeverOpened(N) ==
    /\ N % 2 = HostParity
    /\ conn.host_next_stream_id # 0
    /\ N >= conn.host_next_stream_id
C27_Step ==
    \A N \in 0..(IdMod - 1) :
        (StreamFrameFor(N) /\ N \notin DOMAIN streams) =>
            IF N % 2 # HostParity /\ N >= conn.peer_next_stream_id
            THEN /\ last'.opened = IdsUpTo(conn.peer_next_stream_id, N)
                 /\ conn'.peer_num_streams =
                        conn.peer_num_streams + Len(last'.opened)
                 /\ conn'.peer_next_stream_id = N + 2
            ELSE (N % 2 # HostParity \/ NeverOpened(N)) =>
                     /\ last'.opened = <<>>
                     /\ last'.upd = <<>>
                     /\ DOMAIN streams' = DOMAIN streams
C27_PeerStreamsOpened == [][C27_Step]_vars

\* C27 while quicly_is_client answers with the role of the connection
\* (host.next_stream_id is not 0)
C27_WhileIdsLeft == [][conn.host_next_stream_id # 0 => C27_Step]_vars

\* C28: on_update is invoked for a received STREAM frame only if the frame
\* made the contiguous received prefix of the stream grow or made the
\* stream reach its EOS.
C28_Step ==
    \A id \in 1..(IdMod - 1) :
        LET before == RecvBufBefore(id)
            f == LastFrame'
            received == before.received \cup Interval(f.off, f.off + f.len)
            eos == IF f.fin THEN f.off + f.len ELSE before.eos
            grew == FirstEnd(received) > FirstEnd(before.received)
            reached_eos ==
                /\ FirstEnd(received) = eos
                /\ ~quicly_recvbuf_transfer_complete(before)
        IN (/\ OneFrameReceived("STREAM")
            /\ f.id = id
            /\ UpdatesOf(id) > 0) => (grew \/ reached_eos)
C28_UpdateOnlyOnProgress == [][C28_Step]_vars

\* C29: PADDING appears in CLIENT_INITIAL packets only: no other packet a
\* send call outputs holds a PADDING byte.
C29_PaddingOnlyInClientInitial ==
    last.op = "send" =>
        \A i \in DOMAIN last.packets :
            last.packets[i].type # QUICLY_PACKET_TYPE_CLIENT_INITIAL =>
                last.packets[i].pad = 0

\* C31: a receive call that drops the packet before any frame is processed
\* leaves every field of the connection, connection_id included, and the
\* stream map as they were.
C31_Step ==
    (last'.op = "receive" /\ last'.nframes = 0)
    => conn' = conn /\ streams' = streams
C31_DroppedPacketChangesNothing == [][C31_Step]_vars

\* The part of C31 that holds: a dropped packet changes no field other than
\* connection_id.
C31_OnlyConnectionId ==
    [][(last'.op = "receive" /\ last'.nframes = 0)
       => /\ [conn' EXCEPT !.connection_id = conn.connection_id] = conn
          /\ streams' = streams]_vars

\* the MAX_DATA values (in KB) a packet carries
MaxDataIn(packet) ==
    {packet.frames[j].off :
        j \in {k \in DOMAIN packet.frames : packet.frames[k].t = "MAX_DATA"}}
MaxDataSent == UNION {MaxDataIn(last'.packets[i]) : i \in DOMAIN last'.packets}

\* the peer has sent stream data up to the connection limit last advertised
\* and the host has consumed all of it
WindowUsedUp ==
    /\ conn.state = QUICLY_STATE_1RTT_ENCRYPTED
    /\ conn.bytes_consumed = conn.max_data_sender.max_inflight * 1024

\* C32: with the default parameters, when the peer has sent stream data up
\* to the connection limit last advertised and the host has consumed all of
\* it, a send call that has room for a packet emits a MAX_DATA frame that
\* raises the limit.
C32_Step ==
    (/\ last'.op = "send"
     /\ last'.abort = "none"
     /\ last'.ret = 0
     /\ last'.arg[1] >= 1
     /\ conn.ctx.initial_max_data_kb = 16
     /\ WindowUsedUp)
    => \E v \in MaxDataSent : v > conn.max_data_sender.max_inflight
C32_WindowReopens == [][C32_Step]_vars

\* What the code does: with min_delta = 512 compared in units of KB, no send
\* call emits a MAX_DATA frame while less than 512 KB are consumed.
C32_NoMaxDataBelowMinDelta ==
    [][(last'.op = "send"
           /\ conn.bytes_consumed \div 1024 < MAXSENDER_MIN_DELTA)
       => MaxDataSent = {}]_vars

\* the STREAM frames of non-zero streams in the packets of the last send call
StreamFramesIn(packet) ==
    {packet.frames[j] :
        j \in {k \in DOMAIN packet.frames :
                  packet.frames[k].t = "STREAM" /\ packet.frames[k].id # 0}}
StreamFramesSent == UNION {StreamFramesIn(last.packets[i]) : i \in DOMAIN last.packets}

\* C33: on a connection whose peer sends no MAX_STREAM_DATA frame, the bytes
\* sent on a non-zero stream, whenever the stream was opened, stay within
\* the initial_max_stream_data transport parameter received from the peer.
C33_SentWithinAdvertised ==
    (last.op = "send" /\ conn.state = QUICLY_STATE_1RTT_ENCRYPTED) =>
        \A f \in StreamFramesSent :
            f.off + f.len <= conn.peer_tp.initial_max_stream_data

\* whether frame f is the frame the ack entry e was allocated for
EntryFrame(e, f) ==
    CASE e.kind = "stream" ->
             /\ f.t = "STREAM" /\ f.id = e.stream_id /\ f.off = e.start
             /\ e.end \in {f.off + f.len, f.off + f.len + 1}
      [] e.kind = "max_data" -> f.t = "MAX_DATA" /\ f.off = e.end
      [] e.kind = "max_stream_data" ->
             f.t = "MAX_STREAM_DATA" /\ f.id = e.stream_id /\ f.off = e.end
      [] OTHER ->
             /\ f.t = (IF e.which = "rst" THEN "RST_STREAM" ELSE "STOP_SENDING")
             /\ f.id = e.stream_id

\* whether a packet of the last send call, committed under the packet
\* number of e, holds the frame of e
Committed(e) ==
    \E i \in DOMAIN last'.packets :
        /\ last'.packets[i].packet_number = e.packet_number
        /\ \E j \in DOMAIN last'.packets[i].frames :
               EntryFrame(e, last'.packets[i].frames[j])

\* C34: after a send call, whatever it returns, every entry the call has
\* added to the ack book refers to a frame in a packet the call committed
\* under the entry's packet number: no entry is left for an abandoned
\* packet.
C34_Step ==
    (last'.op = "send" /\ last'.abort = "none") =>
        \A e \in Entries(conn'.acks) \ Entries(conn.acks) : Committed(e)
C34_EntriesOfCommittedPackets == [][C34_Step]_vars

\* The part of C34 that holds: a send call that returns 0 leaves no entry
\* for an abandoned packet.
C34_AfterSuccess == [][last'.ret = 0 => C34_Step]_vars

\* C35: the stop_sending and rst sender states of a stream change only along
\* none -> send, send -> unacked, unacked -> send and unacked -> acked, and a
\* sender state that is acked never changes again.
SenderMoves ==
    {<<"none", "send">>, <<"send", "unacked">>, <<"unacked", "send">>,
     <<"unacked", "acked">>}

SenderMove(old, new) == old = new \/ <<old, new>> \in SenderMoves

C35_Step ==
    \A id \in DOMAIN streams \cap DOMAIN streams' :
        /\ SenderMove(streams[id].rst.sender_state,
                      streams'[id].rst.sender_state)
        /\ SenderMove(streams[id].stop_sending.sender_state,
                      streams'[id].stop_sending.sender_state)

C35_SenderStateMoves == [][C35_Step]_vars

\* The part of C35 that holds: the stop_sending sender state, which no
\* received frame sets, leaves acked never.
C35_StopSendingAckedIsTerminal ==
    [][\A id \in DOMAIN streams \cap DOMAIN streams' :
           streams[id].stop_sending.sender_state = "acked" =>
               streams'[id].stop_sending.sender_state = "acked"]_vars

C35_StopSendingAcked ==
    \E id \in DOMAIN streams : streams[id].stop_sending.sender_state = "acked"

quicly_num_streams(c) == U32(1 + c.host_num_streams + c.peer_num_streams)

\* C36: between library calls host.num_streams is the number of streams of
\* the host in the map, peer.num_streams the number of streams of the peer,
\* and quicly_num_streams the size of the map.
C36_CountersCountStreams ==
    /\ conn.host_num_streams = Cardinality(StreamsOf(conn, streams, TRUE))
    /\ conn.peer_num_streams = Cardinality(StreamsOf(conn, streams, FALSE))
    /\ quicly_num_streams(conn) = Cardinality(DOMAIN streams)

\* The part of C36 that holds: the counters count the streams of the map
\* as long as no on_stream_open callback has failed and stream ids of the
\* host are left.
C36_CountedWhileOpensSucceed ==
    [][(C36_CountersCountStreams /\ conn'.host_next_stream_id # 0
        /\ ~(last'.op = "receive" /\ last'.ret # 0)) =>
           C36_CountersCountStreams']_vars

\* frames of application streams and of connection flow control
AppFrame(f) ==
    \/ f.t = "MAX_DATA"
    \/ /\ f.t \in {"STREAM", "RST_STREAM", "STOP_SENDING", "MAX_STREAM_DATA"}
       /\ f.id # 0

\* frames of stream 0
CryptoFrame(f) ==
    /\ f.t \in {"STREAM", "RST_STREAM", "STOP_SENDING", "MAX_STREAM_DATA"}
    /\ f.id = 0

Cleartext(p) ==
    /\ ~p.aead
    /\ p.type \in {QUICLY_PACKET_TYPE_CLIENT_INITIAL,
                   QUICLY_PACKET_TYPE_CLIENT_CLEARTEXT,
                   QUICLY_PACKET_TYPE_SERVER_CLEARTEXT}

Protected(p) == p.aead /\ p.type = QUICLY_PACKET_TYPE_1RTT_KEY_PHASE_0

\* C37: every packet of a send call is either a cleartext packet, begun
\* and committed under a cleartext type and holding no frame of a non-zero
\* stream and no MAX_DATA frame, or a 1-RTT packet, begun and committed
\* under the AEAD key and holding no frame of stream 0.
C37_EgressConfined ==
    last.op = "send" =>
        \A i \in DOMAIN last.packets :
            LET p == last.packets[i]
            IN /\ Cleartext(p) \/ Protected(p)
               /\ \A j \in DOMAIN p.frames :
                      /\ AppFrame(p.frames[j]) => Protected(p)
                      /\ CryptoFrame(p.frames[j]) => Cleartext(p)

\* a send call that outputs a cleartext packet with a frame of stream 0 and
\* a 1-RTT packet with a frame of another stream
C37_BothKinds ==
    /\ last.op = "send"
    /\ \E i \in DOMAIN last.packets :
           /\ Cleartext(last.packets[i])
           /\ \E j \in DOMAIN last.packets[i].frames :
                  CryptoFrame(last.packets[i].frames[j])
    /\ \E i \in DOMAIN last.packets :
           /\ Protected(last.packets[i])
           /\ \E j \in DOMAIN last.packets[i].frames :
                  AppFrame(last.packets[i].frames[j])

\* received frames that change the state of an application stream or of
\* flow control
ConfinedFrame(f) ==
    \/ f.t \in {"RST_STREAM", "STOP_SENDING", "MAX_DATA", "MAX_STREAM_DATA"}
    \/ f.t = "STREAM" /\ f.id # 0

\* the last call received a cleartext packet without ACK frames and
\* without STREAM frames of stream 0
CleartextWithoutHandshake ==
    /\ last'.op = "receive"
    /\ last'.arg[1].type \in {QUICLY_PACKET_TYPE_CLIENT_CLEARTEXT,
                              QUICLY_PACKET_TYPE_SERVER_CLEARTEXT}
    /\ \A j \in DOMAIN last'.arg[1].frames :
           \/ last'.arg[1].frames[j].t = "PADDING"
           \/ ConfinedFrame(last'.arg[1].frames[j])

\* C38: a received cleartext packet changes no stream and no flow-control
\* limit through a frame other than a STREAM frame of stream 0 or an ACK
\* frame.
C38_Step ==
    CleartextWithoutHandshake =>
        /\ streams' = streams
        /\ conn'.permitted = conn.permitted

C38_IngressConfined == [][C38_Step]_vars

\* C39: the peer never closes the crypto stream: the assertion of
\* on_sendbuf_change never fails, and while the connection lives stream 0
\* is in the stream map with no end of stream in its send buffer.
C39_CryptoStreamStaysOpen ==
    /\ last.abort # "on_sendbuf_change:265"
    /\ Alive => /\ 0 \in DOMAIN streams
                /\ streams[0].sendbuf.eos = UINT64_MAX

\* The part of C39 that holds: no call that returns leaves the crypto
\* stream closed or out of the map.
C39_OpenWhileAlive ==
    Alive => /\ 0 \in DOMAIN streams
             /\ streams[0].sendbuf.eos = UINT64_MAX

\* the last receive call ran on_update, and the stream it was run for was
\* destroyed during the call
ClosedInUpdate ==
    /\ last.op = "receive"
    /\ \E i \in DOMAIN last.upd, j \in DOMAIN last.destroyed :
           last.destroyed[j].stream_id = last.upd[i]

\* C40: a receive call whose on_update callback closes a stream that is
\* destroyed as a result does not touch the stream after the callback
\* returns.
C40_NoUseAfterDestroy == last.abort # "use-after-free"

\* The part of C40 that holds: for a STREAM frame the stream destroyed in
\* on_update is not touched again.
C40_StreamFrameSafe ==
    (last.op = "receive" /\ last.nframes >= 1
     /\ last.arg[1].frames[last.nframes].t = "STREAM") =>
        last.abort # "use-after-free"

C40_StreamClosedInUpdate ==
    /\ ClosedInUpdate
    /\ last.abort = "none"
    /\ last.arg[1].frames[1].t = "STREAM"
====
